---- MODULE Spec2Model ----
(***************************************************************************)
(* Model of the two mesh generators of the lampshade builder:              *)
(*   generateLampshadeGeometry  (shape generator, revolution sweep plus    *)
(*                               displacement / assembly / attachments)    *)
(*   generateLithophaneGeometry (heightfield relief generator)             *)
(* and of the page that shows and exports the shape (Index, ControlPanel,  *)
(* LampshadeViewport).                                                     *)
(*                                                                         *)
(* Numbers.  A JavaScript number is modelled as a pair <<n, d>>:           *)
(*   d > 0  : the rational n/d in lowest terms                             *)
(*   d = 0  : n = 0 is NaN, n = 1 is +Infinity, n = -1 is -Infinity        *)
(* Arithmetic is exact; IEEE rounding is not modelled.                     *)
(*                                                                         *)
(* Angles are fractions of a full turn unless stated otherwise.            *)
(* Math.sin / Math.cos are modelled by SinTurn / CosTurn (Bhaskara's      *)
(* rational approximation, to 1/1000), which keeps sin(0) = sin(pi) = 0,   *)
(* sin(pi/2) = 1, |sin| <= 1, oddness and the 2*pi period exact.           *)
(***************************************************************************)
EXTENDS Integers, Sequences, FiniteSets

VARIABLES pc, params, geometry, imageData, lparams, relief, outcome, processed,
          material, showWireframe, pristine, mesh, meshRef, geometries, exported

vars == <<pc, params, geometry, imageData, lparams, relief, outcome, processed,
          material, showWireframe, pristine, mesh, meshRef, geometries, exported>>

----------------------------------------------------------------------------
(* JavaScript number arithmetic *)

Abs(n) == IF n < 0 THEN -n ELSE n

Max0(n) == IF n < 0 THEN 0 ELSE n

ClampInt(lo, hi, x) == IF x < lo THEN lo ELSE IF x > hi THEN hi ELSE x

Sgn(n) == IF n < 0 THEN -1 ELSE IF n > 0 THEN 1 ELSE 0

RECURSIVE GCD(_, _)
GCD(a, b) == IF b = 0 THEN a ELSE GCD(b, a % b)

LCM(a, b) == (a \div GCD(a, b)) * b

Num(n, d) ==
    IF d = 0 THEN <<Sgn(n), 0>>
    ELSE LET g == GCD(Abs(n), Abs(d))
             s == IF d < 0 THEN -1 ELSE 1
         IN  <<s * (n \div g), s * (d \div g)>>

R(n) == <<n, 1>>

NaN == <<0, 0>>

IsNaN(a) == a[2] = 0 /\ a[1] = 0

IsInf(a) == a[2] = 0 /\ a[1] # 0

IsFinite(a) == a[2] # 0

RNeg(a) == <<-a[1], a[2]>>

RAdd(a, b) ==
    IF IsNaN(a) \/ IsNaN(b) THEN NaN
    ELSE IF IsInf(a) THEN (IF IsInf(b) /\ b[1] # a[1] THEN NaN ELSE a)
    ELSE IF IsInf(b) THEN b
    ELSE LET l == LCM(a[2], b[2])
         IN  Num(a[1] * (l \div a[2]) + b[1] * (l \div b[2]), l)

RSub(a, b) == RAdd(a, RNeg(b))

RMul(a, b) ==
    IF IsNaN(a) \/ IsNaN(b) THEN NaN
    ELSE IF IsInf(a) \/ IsInf(b)
         THEN (IF a[1] = 0 \/ b[1] = 0 THEN NaN ELSE <<Sgn(a[1]) * Sgn(b[1]), 0>>)
    ELSE LET g1 == GCD(Abs(a[1]), b[2])
             g2 == GCD(Abs(b[1]), a[2])
         IN  Num((a[1] \div g1) * (b[1] \div g2), (a[2] \div g2) * (b[2] \div g1))

RInv(a) ==
    IF IsNaN(a) THEN NaN
    ELSE IF IsInf(a) THEN R(0)
    ELSE IF a[1] = 0 THEN <<1, 0>>
    ELSE <<Sgn(a[1]) * a[2], Abs(a[1])>>

RDiv(a, b) == RMul(a, RInv(b))

(* a < b, a <= b as JavaScript compares them: false when either is NaN *)
RSign(a) == Sgn(a[1])

RLt(a, b) ==
    /\ ~IsNaN(a)
    /\ ~IsNaN(b)
    /\ IF IsInf(a) \/ IsInf(b)
       THEN (IF IsInf(a) /\ IsInf(b) THEN a[1] < b[1]
             ELSE IF IsInf(a) THEN a[1] < 0 ELSE b[1] > 0)
       ELSE RSign(RSub(a, b)) < 0

RLe(a, b) == ~IsNaN(a) /\ ~IsNaN(b) /\ ~RLt(b, a)

(* Math.max / Math.min: NaN when either argument is NaN *)
RMax(a, b) == IF IsNaN(a) \/ IsNaN(b) THEN NaN ELSE IF RLt(a, b) THEN b ELSE a

RMin(a, b) == IF IsNaN(a) \/ IsNaN(b) THEN NaN ELSE IF RLt(b, a) THEN b ELSE a

(* Math.floor *)
RFloor(a) == IF IsFinite(a) THEN R(a[1] \div a[2]) ELSE a

(* Math.round: floor(x + 0.5) *)
RRound(a) == RFloor(RAdd(a, Num(1, 2)))

----------------------------------------------------------------------------
(* Trigonometry.  Angles are numbers of turns (1 = 2*pi). *)

(* The finest angle the sine is evaluated at: 1/720 of a turn *)
AngleGrid == 720

(* The angle reduced to [0, 1) turn, as a number of 1/AngleGrid turns *)
AngleSteps(a) == ((a[1] * AngleGrid) \div a[2]) % AngleGrid

(* sin(pi * p / q) for 0 <= p <= q, in thousandths (Bhaskara I) *)
SinHalfTurn(p, q) == (16000 * p * (q - p)) \div (5 * q * q - 4 * p * (q - p))

(* Math.sin of the angle a *)
SinTurn(a) ==
    IF ~IsFinite(a) THEN NaN
    ELSE LET k == AngleSteps(a)
             h == AngleGrid \div 2
         IN  IF k < h THEN Num(SinHalfTurn(k, h), 1000)
             ELSE Num(-SinHalfTurn(k - h, h), 1000)

(* Math.cos of the angle a *)
CosTurn(a) == SinTurn(RAdd(a, Num(1, 4)))

(* The first three decimals of r / d, for 0 <= r < d, by long division *)
Thousandths(r, d) ==
    LET d1 == (r * 10) \div d
        r1 == (r * 10) % d
        d2 == (r1 * 10) \div d
        r2 == (r1 * 10) % d
        d3 == (r2 * 10) \div d
    IN  100 * d1 + 10 * d2 + d3

(* A number of radians as a number of turns (pi = 355/113), on the angle grid *)
RadToTurn(x) ==
    IF ~IsFinite(x) THEN NaN
    ELSE LET whole == x[1] \div x[2]
             milli == Thousandths(x[1] % x[2], x[2])
         IN  Num((whole * 113 * AngleGrid + (milli * 113 * AngleGrid) \div 1000) \div 710,
                 AngleGrid)

(* A number rounded down to thousandths *)
Milli(x) ==
    IF ~IsFinite(x) THEN x
    ELSE Num((x[1] \div x[2]) * 1000 + Thousandths(x[1] % x[2], x[2]), 1000)

(* Math.pow(x, 2), to thousandths *)
Pow2(x) == Milli(RMul(x, x))

(* The angle a brought into (-1/2, 1/2] turn: the range of Math.atan2 *)
PrincipalAngle(a) ==
    IF ~IsFinite(a) THEN NaN
    ELSE LET f == RSub(a, RFloor(a))
         IN  IF RLt(Num(1, 2), f) THEN RSub(f, R(1)) ELSE f

----------------------------------------------------------------------------
(* Meshes.  A vertex [x, y, z, rot] is the point (x, y, z) rotated about the
   y axis by rot turns: (x cos rot + z sin rot, y, -x sin rot + z cos rot).
   A vertex of a surface of revolution is [0, y, radius, phi]. *)

Vtx(x, y, z, rot) == [x |-> x, y |-> y, z |-> z, rot |-> rot]

(* Math.atan2(pz, px) of a vertex on the rotated z axis (x = 0) *)
VertexAngle(v) ==
    IF IsNaN(v.z) \/ IsNaN(v.rot) THEN NaN
    ELSE IF RSign(v.z) = 0 THEN R(0)
    ELSE IF RSign(v.z) > 0 THEN PrincipalAngle(RSub(Num(1, 4), v.rot))
    ELSE PrincipalAngle(RSub(Num(3, 4), v.rot))

(* Math.sqrt(px * px + pz * pz) of such a vertex *)
VertexRadius(v) == IF RSign(v.z) < 0 THEN RNeg(v.z) ELSE v.z

(* params.x || dflt *)
Or(x, dflt) == IF x = 0 THEN dflt ELSE x

ROr(x, dflt) == IF IsNaN(x) \/ (IsFinite(x) /\ x[1] = 0) THEN dflt ELSE x

----------------------------------------------------------------------------
(* Shape generator: noise, silhouette and displacement functions *)

(* n - Math.floor(n) for n = s * 43758.545, to thousandths *)
NoiseFraction(s) ==
    IF ~IsFinite(s) THEN NaN
    ELSE Num(((s[1] * (1000 \div s[2]) * 758545) % 1000000) \div 1000, 1000)

(* The products of the argument are kept to thousandths *)
pseudoNoise(x, y, z, seed) ==
    NoiseFraction(SinTurn(RadToTurn(
        RAdd(RAdd(RAdd(Milli(RMul(x, Num(129898, 10000))),
                       Milli(RMul(y, Num(78233, 1000)))),
                  Milli(RMul(z, Num(37719, 1000)))),
             R(seed)))))

(* t = (y + height / 2) / height *)
HeightFraction(y, p) == RDiv(RAdd(y, RDiv(p.height, R(2))), p.height)

(* A switch whose default case bulges the radius as case 'convex' does *)
SilhouetteFactorBulgingDefault(silhouette, t, s) ==
    CASE silhouette = "hourglass" -> RAdd(R(1), RMul(Pow2(s), Num(-3, 10)))
      [] silhouette = "bell"      -> RAdd(R(1), RMul(Pow2(RSub(R(1), t)), Num(4, 10)))
      [] silhouette = "concave"   -> RAdd(R(1), RMul(s, Num(-2, 10)))
      [] OTHER                    -> RAdd(R(1), RMul(s, Num(2, 10)))

(* switch (params.silhouette): the factor r is multiplied by; s = sin(t * PI) *)
SilhouetteFactor(silhouette, t, s) ==
    CASE silhouette = "hourglass" -> RAdd(R(1), RMul(Pow2(s), Num(-3, 10)))
      [] silhouette = "bell"      -> RAdd(R(1), RMul(Pow2(RSub(R(1), t)), Num(4, 10)))
      [] silhouette = "convex"    -> RAdd(R(1), RMul(s, Num(2, 10)))
      [] silhouette = "concave"   -> RAdd(R(1), RMul(s, Num(-2, 10)))
      [] OTHER                    -> R(1)

RadiusAtFraction(t, p) ==
    RMul(RAdd(p.topRadius, RMul(RSub(p.bottomRadius, p.topRadius), t)),
         SilhouetteFactor(p.silhouette, t, SinTurn(RDiv(t, R(2)))))

getRadiusAtHeight(y, p) == RadiusAtFraction(HeightFraction(y, p), p)

(* case 'organic_cell' | 'perlin_noise' at the scaled point (cx, sy, sz) *)
NoiseDisplacement(cx, sy, sz, seed, strength) ==
    RMul(RAdd(RMul(pseudoNoise(cx, sy, sz, seed), Num(6, 10)),
              RMul(pseudoNoise(RMul(cx, R(2)), RMul(sy, R(2)), RMul(sz, R(2)), seed),
                   Num(4, 10))),
         strength)

(* case 'origami' for segmentIndex = Math.round(angle / (2 PI) * folds * 2) *)
FoldDisplacement(segmentIndex, depth) ==
    IF ~IsFinite(segmentIndex) \/ segmentIndex[1] % 2 # 0 THEN RNeg(depth) ELSE R(0)

getDisplacementAt(angle, y, p) ==
    CASE p.type = "ribbed_drum" ->
            RMul(SinTurn(RMul(angle, R(Or(p.ribCount, 20)))), ROr(p.ribDepth, Num(1, 2)))
      [] p.type = "wave_shell" ->
            RMul(SinTurn(RAdd(RMul(angle, R(Or(p.frequency, 8))), HeightFraction(y, p))),
                 ROr(p.amplitude, Num(1, 2)))
      [] p.type \in {"organic_cell", "perlin_noise"} ->
            NoiseDisplacement(RMul(CosTurn(angle), ROr(p.noiseScale, Num(3, 2))),
                              RMul(y, ROr(p.noiseScale, Num(3, 2))),
                              RMul(SinTurn(angle), ROr(p.noiseScale, Num(3, 2))),
                              p.seed, ROr(p.noiseStrength, Num(2, 5)))
      [] p.type = "origami" ->
            FoldDisplacement(RRound(RMul(angle, R(Or(p.foldCount, 12) * 2))),
                             ROr(p.foldDepth, Num(8, 10)))
      [] OTHER -> R(0)

(* A profile point whose radius is not clamped *)
ProfilePointUnclamped(r, y, outer, tVal) ==
    [x |-> IF outer THEN r ELSE RSub(r, tVal), y |-> y]

(* One point of the closed profile at height y: on the outer wall the radius,
   at least 0.1; on the inner wall the radius less tVal, at least 0.05 *)
ProfilePoint(r, y, outer, tVal) ==
    [x |-> IF outer THEN RMax(Num(1, 10), r) ELSE RMax(Num(5, 100), RSub(r, tVal)),
     y |-> y]

(* y = -height / 2 + height * (i / steps) *)
ProfileHeight(p, i, steps) == RAdd(RDiv(RNeg(p.height), R(2)), RMul(p.height, Num(i, steps)))

(* A profile whose loops stop one sample short: i < steps and i > 0 *)
getClosedProfilePointsShort(p, steps, customThickness) ==
    [k \in 1..(2 * steps) |->
        ProfilePoint(getRadiusAtHeight(
                         ProfileHeight(p, IF k <= steps THEN k - 1 ELSE 2 * steps + 1 - k,
                                       steps), p),
                     ProfileHeight(p, IF k <= steps THEN k - 1 ELSE 2 * steps + 1 - k, steps),
                     k <= steps,
                     ROr(customThickness, p.thickness))]

(* getClosedProfilePoints(steps, customThickness): the outer wall upwards,
   then the inner wall downwards *)
getClosedProfilePoints(p, steps, customThickness) ==
    [k \in 1..(2 * (steps + 1)) |->
        ProfilePoint(getRadiusAtHeight(
                         ProfileHeight(p, IF k <= steps + 1 THEN k - 1 ELSE 2 * steps + 2 - k,
                                       steps), p),
                     ProfileHeight(p, IF k <= steps + 1 THEN k - 1 ELSE 2 * steps + 2 - k, steps),
                     k <= steps + 1,
                     ROr(customThickness, p.thickness))]

----------------------------------------------------------------------------
(* The geometry constructors and utilities the shape generator calls *)

NoGeometry == [position |-> <<>>, index |-> <<>>]

(* The vertices and the indices of the parts, one part after the other *)
RECURSIVE JoinPositions(_, _)
JoinPositions(parts, n) ==
    IF n = 0 THEN <<>> ELSE JoinPositions(parts, n - 1) \o parts[n].position

RECURSIVE JoinIndices(_, _)
JoinIndices(parts, n) ==
    IF n = 0 THEN <<>> ELSE JoinIndices(parts, n - 1) \o parts[n].index

JoinGeometries(parts, n) ==
    [position |-> JoinPositions(parts, n), index |-> JoinIndices(parts, n)]

(* The two triangles a, b, d and b, c, d *)
QuadIndices(a, b, c, d) == <<a, b, d, b, c, d>>

(* new THREE.LatheGeometry(points, segments): segments + 1 copies of the
   profile, ring i at angle i / segments, adjacent rings joined by quads
   a = base, b = base + np, c = base + np + 1, d = base + 1 pushed as
   a, b, d, c, d, b *)
LatheQuad(base, np) == <<base, base + np, base + 1, base + np + 1, base + 1, base + np>>

LatheGeometry(points, segments) ==
    [position |->
        [k \in 1..(Max0(segments + 1) * Len(points)) |->
            Vtx(R(0), points[((k - 1) % Len(points)) + 1].y,
                points[((k - 1) % Len(points)) + 1].x,
                RMul(R((k - 1) \div Len(points)), RInv(R(segments))))],
     index |->
        [k \in 1..(6 * Max0(segments) * Max0(Len(points) - 1)) |->
            LatheQuad((((k - 1) \div 6) % (Len(points) - 1))
                          + (((k - 1) \div 6) \div (Len(points) - 1)) * Len(points),
                      Len(points))[((k - 1) % 6) + 1]]]

(* BufferGeometryUtils.mergeGeometries(geoms): the positions concatenated, each
   geometry's indices offset by the number of vertices before it *)
OffsetIndices(index, offset) == [i \in 1..Len(index) |-> index[i] + offset]

RECURSIVE MergeFrom(_, _, _)
MergeFrom(geoms, k, acc) ==
    IF k > Len(geoms) THEN acc
    ELSE MergeFrom(geoms, k + 1,
                   [position |-> acc.position \o geoms[k].position,
                    index |-> acc.index \o OffsetIndices(geoms[k].index, Len(acc.position))])

mergeGeometries(geoms) == MergeFrom(geoms, 1, NoGeometry)

(* buildPlane of BoxGeometry: vector[u] = a, vector[v] = b, vector[w] = c *)
PlaneVertex(u, v, a, b, c) ==
    [x |-> IF u = "x" THEN a ELSE IF v = "x" THEN b ELSE c,
     y |-> IF u = "y" THEN a ELSE IF v = "y" THEN b ELSE c,
     z |-> IF u = "z" THEN a ELSE IF v = "z" THEN b ELSE c,
     rot |-> R(0)]

(* i * (size / n) - size / 2 *)
GridCoord(i, size, n) == RSub(RMul(R(i), RDiv(size, R(n))), RDiv(size, R(2)))

(* buildPlane: a (gx + 1) x (gy + 1) grid on one face *)
BuildPlane(u, v, w, udir, vdir, width, height, depth, gx, gy, numberOfVertices) ==
    [position |->
        [k \in 1..((gx + 1) * (gy + 1)) |->
            PlaneVertex(u, v,
                        RMul(GridCoord((k - 1) % (gx + 1), width, gx), R(udir)),
                        RMul(GridCoord((k - 1) \div (gx + 1), height, gy), R(vdir)),
                        RDiv(depth, R(2)))],
     index |->
        [k \in 1..(6 * gx * gy) |->
            QuadIndices(numberOfVertices + (((k - 1) \div 6) % gx) + (gx + 1) * (((k - 1) \div 6) \div gx),
                        numberOfVertices + (((k - 1) \div 6) % gx) + (gx + 1) * ((((k - 1) \div 6) \div gx) + 1),
                        numberOfVertices + (((k - 1) \div 6) % gx) + 1 + (gx + 1) * ((((k - 1) \div 6) \div gx) + 1),
                        numberOfVertices + (((k - 1) \div 6) % gx) + 1 + (gx + 1) * (((k - 1) \div 6) \div gx)
                       )[((k - 1) % 6) + 1]]]

(* The six buildPlane calls of BoxGeometry: u, v, w, udir, vdir, width, height,
   depth, gridX, gridY *)
BoxPlanes(width, height, depth, ws, hs, ds) ==
    << <<"z", "y", "x", -1, -1, depth, height, width, ds, hs>>,
       <<"z", "y", "x", 1, -1, depth, height, RNeg(width), ds, hs>>,
       <<"x", "z", "y", 1, 1, width, depth, height, ws, ds>>,
       <<"x", "z", "y", 1, -1, width, depth, RNeg(height), ws, ds>>,
       <<"x", "y", "z", 1, -1, width, height, depth, ws, hs>>,
       <<"x", "y", "z", -1, -1, width, height, RNeg(depth), ws, hs>> >>

(* numberOfVertices before plane i *)
RECURSIVE PlaneStart(_, _)
PlaneStart(planes, i) ==
    IF i = 1 THEN 0
    ELSE PlaneStart(planes, i - 1) + (planes[i - 1][9] + 1) * (planes[i - 1][10] + 1)

BoxFromPlanes(planes) ==
    JoinGeometries([i \in 1..6 |->
                       BuildPlane(planes[i][1], planes[i][2], planes[i][3], planes[i][4],
                                  planes[i][5], planes[i][6], planes[i][7], planes[i][8],
                                  planes[i][9], planes[i][10], PlaneStart(planes, i))], 6)

(* new THREE.BoxGeometry(width, height, depth, ws, hs, ds) *)
BoxGeometry(width, height, depth, ws, hs, ds) ==
    BoxFromPlanes(BoxPlanes(width, height, depth, ws, hs, ds))

(* generateTorso of CylinderGeometry: rows from the top down *)
CylinderTorso(radiusTop, radiusBottom, height, rs, hs) ==
    [position |->
        [k \in 1..((rs + 1) * (hs + 1)) |->
            Vtx(R(0),
                RAdd(RMul(RNeg(Num((k - 1) \div (rs + 1), hs)), height), RDiv(height, R(2))),
                RAdd(RMul(Num((k - 1) \div (rs + 1), hs), RSub(radiusBottom, radiusTop)),
                     radiusTop),
                Num((k - 1) % (rs + 1), rs))],
     index |->
        [k \in 1..(6 * rs * hs) |->
            QuadIndices((((k - 1) \div 6) \div rs) * (rs + 1) + (((k - 1) \div 6) % rs),
                        ((((k - 1) \div 6) \div rs) + 1) * (rs + 1) + (((k - 1) \div 6) % rs),
                        ((((k - 1) \div 6) \div rs) + 1) * (rs + 1) + (((k - 1) \div 6) % rs) + 1,
                        (((k - 1) \div 6) \div rs) * (rs + 1) + (((k - 1) \div 6) % rs) + 1
                       )[((k - 1) % 6) + 1]]]

(* generateCap of CylinderGeometry, called only for a positive radius: rs
   centre vertices, rs + 1 rim vertices, one triangle per segment *)
CapTriangle(top, i, c) == IF top THEN <<i, i + 1, c>> ELSE <<i + 1, i, c>>

CylinderCap(top, radius, yc, rs, start) ==
    IF RLt(R(0), radius)
    THEN [position |-> [k \in 1..(2 * rs + 1) |->
                           IF k <= rs THEN Vtx(R(0), yc, R(0), R(0))
                           ELSE Vtx(R(0), yc, radius, Num(k - rs - 1, rs))],
          index |-> [k \in 1..(3 * rs) |->
                        CapTriangle(top, start + rs + ((k - 1) \div 3),
                                    start + ((k - 1) \div 3))[((k - 1) % 3) + 1]]]
    ELSE NoGeometry

CapSize(radius, rs) == IF RLt(R(0), radius) THEN 2 * rs + 1 ELSE 0

(* new THREE.CylinderGeometry(radiusTop, radiusBottom, height, rs, hs): the
   torso, then a cap at each end of positive radius *)
CylinderGeometry(radiusTop, radiusBottom, height, rs, hs) ==
    JoinGeometries(
        <<CylinderTorso(radiusTop, radiusBottom, height, rs, hs),
          CylinderCap(TRUE, radiusTop, RDiv(height, R(2)), rs, (rs + 1) * (hs + 1)),
          CylinderCap(FALSE, radiusBottom, RNeg(RDiv(height, R(2))), rs,
                      (rs + 1) * (hs + 1) + CapSize(radiusTop, rs))>>, 3)

(* new THREE.TorusGeometry(radius, tube, rs, ts), then rotateX(Math.PI / 2) and
   translate(0, yPos, 0): a ring about the y axis at height yPos *)
TorusRing(radius, tube, rs, ts, yPos) ==
    [position |->
        [k \in 1..((rs + 1) * (ts + 1)) |->
            Vtx(R(0),
                RAdd(RNeg(RMul(tube, SinTurn(Num((k - 1) \div (ts + 1), rs)))), yPos),
                RAdd(radius, RMul(tube, CosTurn(Num((k - 1) \div (ts + 1), rs)))),
                RSub(Num(1, 4), Num((k - 1) % (ts + 1), ts)))],
     index |->
        [k \in 1..(6 * rs * Max0(ts)) |->
            QuadIndices((ts + 1) * ((((k - 1) \div 6) \div ts) + 1) + (((k - 1) \div 6) % ts),
                        (ts + 1) * (((k - 1) \div 6) \div ts) + (((k - 1) \div 6) % ts),
                        (ts + 1) * (((k - 1) \div 6) \div ts) + (((k - 1) \div 6) % ts) + 1,
                        (ts + 1) * ((((k - 1) \div 6) \div ts) + 1) + (((k - 1) \div 6) % ts) + 1
                       )[((k - 1) % 6) + 1]]]

(* One vertex turned by angle about the y axis *)
RotateVertex(v, angle) == [v EXCEPT !.rot = RAdd(@, angle)]

(* geometry.rotateY(angle) *)
rotateY(geom, angle) ==
    [position |-> [k \in 1..Len(geom.position) |-> RotateVertex(geom.position[k], angle)],
     index |-> geom.index]

----------------------------------------------------------------------------
(* Shape generator: generateLampshadeGeometry *)

ProfileSteps == 60

CoreProfileSteps == 40

BoxHeightSegments == 32

(* A scaling that writes the y coordinate as well *)
ScaleUniformly(v, factor) ==
    [v EXCEPT !.x = RMul(@, factor), !.y = RMul(@, factor), !.z = RMul(@, factor)]

(* pos.setX(i, px * factor); pos.setZ(i, pz * factor) *)
ScaleRadially(v, factor) == [v EXCEPT !.x = RMul(@, factor), !.z = RMul(@, factor)]

(* factor = (r + disp) / r *)
DisplacementFactor(r, disp) == RDiv(RAdd(r, disp), r)

(* case 'organic_cell' | 'perlin_noise' | 'wave_shell' | 'ribbed_drum':
   every vertex of the swept shell scaled radially by (r + disp) / r *)
DisplaceVertex(v, p) ==
    ScaleRadially(v, DisplacementFactor(VertexRadius(v),
                                        getDisplacementAt(VertexAngle(v), v.y, p)))

(* for (let i = 0; i < pos.count; i++) over the swept shell *)
DisplaceVertices(geom, p) ==
    [position |-> [k \in 1..Len(geom.position) |-> DisplaceVertex(geom.position[k], p)],
     index |-> geom.index]

DisplacedShell(p, closedProfile) ==
    DisplaceVertices(LatheGeometry(closedProfile, p.segments), p)

(* case 'spiral_twist': every vertex rotated about the y axis by normY * twist,
   twist = (params.twistAngle || 360) degrees; (px cos a - pz sin a,
   px sin a + pz cos a) is the vertex turned by -a *)
TwistVertex(v, p) ==
    RotateVertex(v, RNeg(RMul(HeightFraction(v.y, p), Num(Or(p.twistAngle, 360), 360))))

TwistVertices(geom, p) ==
    [position |-> [k \in 1..Len(geom.position) |-> TwistVertex(geom.position[k], p)],
     index |-> geom.index]

SpiralShell(p, closedProfile) ==
    TwistVertices(LatheGeometry(closedProfile, p.segments), p)

(* case 'slotted': a fin vertex is moved to r when px > 0, else to
   r - finDepth + 0.01 *)
FinVertex(v, r, finDepth) ==
    IF RLt(R(0), v.x) THEN [v EXCEPT !.x = r]
    ELSE [v EXCEPT !.x = RAdd(RSub(r, finDepth), Num(1, 100))]

(* finDepth = coreOffset + 0.5 = 1.3 *)
FinVertices(box, p, finDepth) ==
    [position |-> [k \in 1..Len(box.position) |->
                      FinVertex(box.position[k], getRadiusAtHeight(box.position[k].y, p),
                                finDepth)],
     index |-> box.index]

FinGeometry(p, i, count) ==
    rotateY(FinVertices(BoxGeometry(Num(13, 10), p.height, p.thickness,
                                    1, BoxHeightSegments, 1),
                        p, Num(13, 10)),
            Num(i, count))

(* coreGeom.scale(0.8, 1, 0.8) *)
ScaleCore(geom) ==
    [position |-> [k \in 1..Len(geom.position) |->
                      ScaleRadially(geom.position[k], Num(8, 10))],
     index |-> geom.index]

(* case 'slotted': a shrunken core shell and slotCount radial fins *)
SlottedAssembly(p) ==
    mergeGeometries(
        <<ScaleCore(LatheGeometry(getClosedProfilePoints(p, CoreProfileSteps, p.thickness),
                                  p.segments))>>
        \o [i \in 1..Max0(Or(p.slotCount, 16)) |-> FinGeometry(p, i - 1, Or(p.slotCount, 16))])

(* A strut vertex at height py is put at radius r and angle
   angle + dir * t * (2 PI / density) *)
StrutVertex(v, p, angle, dir, density) ==
    Vtx(R(0), v.y, getRadiusAtHeight(v.y, p),
        RSub(Num(1, 4),
             RAdd(angle, RMul(RMul(R(dir), HeightFraction(v.y, p)), Num(2, density)))))

(* case 'lattice': gridDensity pairs of twisted struts and two rings *)
StrutVertices(cyl, p, angle, dir, density) ==
    [position |-> [k \in 1..Len(cyl.position) |->
                      StrutVertex(cyl.position[k], p, angle, dir, density)],
     index |-> cyl.index]

StrutGeometry(p, i, density, dir) ==
    StrutVertices(CylinderGeometry(RDiv(p.thickness, R(2)), RDiv(p.thickness, R(2)),
                                   RMul(p.height, Num(11, 10)), 6, BoxHeightSegments),
                  p, Num(i, density), dir, density)

LatticeAssembly(p) ==
    mergeGeometries(
        [k \in 1..(2 * Max0(Or(p.gridDensity, 12))) |->
            StrutGeometry(p, (k - 1) \div 2, Or(p.gridDensity, 12), IF k % 2 = 1 THEN 1 ELSE -1)]
        \o <<TorusRing(p.topRadius, RDiv(p.thickness, R(2)), 8, p.segments,
                       RDiv(p.height, R(2))),
             TorusRing(p.bottomRadius, RDiv(p.thickness, R(2)), 8, p.segments,
                       RDiv(RNeg(p.height), R(2)))>>)

(* A rib vertex is moved to r + 0.01 when pz > 0, else to r - ribDepth, for
   r = getRadiusAtHeight(py) - thickness *)
RibVertex(v, r, ribDepth) ==
    IF RLt(R(0), v.z) THEN [v EXCEPT !.z = RAdd(r, Num(1, 100))]
    ELSE [v EXCEPT !.z = RSub(r, ribDepth)]

(* the internal ribs: internalRibs slabs following the inner wall; ribDepth = 0.5 *)
RibVertices(box, p, ribDepth) ==
    [position |-> [k \in 1..Len(box.position) |->
                      RibVertex(box.position[k],
                                RSub(getRadiusAtHeight(box.position[k].y, p), p.thickness),
                                ribDepth)],
     index |-> box.index]

RibGeometry(p, i) ==
    rotateY(RibVertices(BoxGeometry(ROr(p.ribThickness, Num(2, 10)), p.height, Num(1, 2),
                                    1, BoxHeightSegments, 1),
                        p, Num(1, 2)),
            Num(i, p.internalRibs))

RibGeometries(p) == [i \in 1..p.internalRibs |-> RibGeometry(p, i - 1)]

(* spoke.translate(fitterRadius + spokeLength / 2, yPos, 0) *)
TranslateVertex(v, dx, dy) == [v EXCEPT !.x = RAdd(@, dx), !.y = RAdd(@, dy)]

translate(geom, dx, dy) ==
    [position |-> [k \in 1..Len(geom.position) |-> TranslateVertex(geom.position[k], dx, dy)],
     index |-> geom.index]

(* A spoke of the given length from the fitter ring outwards *)
SpokeBox(fitterRadius, yPos, spokeLength, angle) ==
    rotateY(translate(BoxGeometry(spokeLength, Num(15, 100), Num(3, 10), 1, 1, 1),
                      RAdd(fitterRadius, RDiv(spokeLength, R(2))), yPos),
            angle)

(* spokeLength = Math.max(0.1, targetRadius - fitterRadius) for targetRadius =
   baseRadius + disp - thickness - 0.05 *)
SpokeLength(p, fitterRadius, yPos, angle) ==
    RMax(Num(1, 10),
         RSub(RSub(RSub(RAdd(getRadiusAtHeight(yPos, p), getDisplacementAt(angle, yPos, p)),
                        p.thickness),
                   Num(5, 100)),
              fitterRadius))

SpokeGeometry(p, i, spokeCount) ==
    SpokeBox(RDiv(p.fitterDiameter, R(20)),
             RSub(RDiv(p.height, R(2)), p.fitterHeight),
             SpokeLength(p, RDiv(p.fitterDiameter, R(20)),
                         RSub(RDiv(p.height, R(2)), p.fitterHeight), Num(i, spokeCount)),
             Num(i, spokeCount))

(* A count that does not look at the fitter type *)
SpokeCountAlwaysFour(p) == 4

(* spokeCount = fitterType === 'spider' ? 3 : 4 *)
SpokeCount(p) == IF p.fitterType = "spider" THEN 3 ELSE 4

(* generateFitterGeometry(params): a ring and 3 or 4 spokes *)
generateFitterGeometry(p) ==
    mergeGeometries(
        <<TorusRing(RDiv(p.fitterDiameter, R(20)), Num(15, 100), 8, 32,
                    RSub(RDiv(p.height, R(2)), p.fitterHeight))>>
        \o [i \in 1..SpokeCount(p) |-> SpokeGeometry(p, i - 1, SpokeCount(p))])

(* switch (type): the base geometry built from closedProfile *)
ShapeGeometry(p, closedProfile) ==
    CASE p.type \in {"organic_cell", "perlin_noise", "wave_shell", "ribbed_drum"} ->
            DisplacedShell(p, closedProfile)
      [] p.type = "slotted" -> SlottedAssembly(p)
      [] p.type = "lattice" -> LatticeAssembly(p)
      [] p.type = "spiral_twist" -> SpiralShell(p, closedProfile)
      [] OTHER -> LatheGeometry(closedProfile, p.segments)

BaseGeometry(p) == ShapeGeometry(p, getClosedProfilePoints(p, ProfileSteps, NaN))

WithRibs(p, base) ==
    IF p.internalRibs > 0 THEN mergeGeometries(<<base>> \o RibGeometries(p)) ELSE base

(* A merge that takes over the fitter's triangles but not its vertices *)
WithFitterIndicesOnly(p, geom) ==
    IF p.fitterType # "none"
    THEN [position |-> geom.position,
          index |-> mergeGeometries(<<geom, generateFitterGeometry(p)>>).index]
    ELSE geom

WithFitter(p, geom) ==
    IF p.fitterType # "none" THEN mergeGeometries(<<geom, generateFitterGeometry(p)>>)
    ELSE geom

(* computeVertexNormals adds normals only; positions and indices are as merged *)
generateLampshadeGeometry(p) == WithFitter(p, WithRibs(p, BaseGeometry(p)))

----------------------------------------------------------------------------
(* Heightfield relief generator: generateLithophaneGeometry *)

(* A store into a Uint8ClampedArray of sum / count (sum >= 0, count > 0):
   rounded to the nearest integer, ties to even, clamped to 0..255 *)
ToUint8Clamped(sum, count) ==
    LET q  == sum \div count
        r2 == 2 * (sum % count)
        n  == IF r2 < count THEN q
              ELSE IF r2 > count THEN q + 1
              ELSE IF q % 2 = 0 THEN q ELSE q + 1
    IN  ClampInt(0, 255, n)

(* Sum of channel ch over the first k entries of the (2r+1) x (2r+1) window
   around (x, y), window coordinates clamped to the image *)
RECURSIVE WindowSum(_, _, _, _, _, _, _, _)
WindowSum(data, width, height, r, x, y, ch, k) ==
    IF k = 0 THEN 0
    ELSE LET side == 2 * r + 1
             ky   == ((k - 1) \div side) - r
             kx   == ((k - 1) % side) - r
             px   == ClampInt(0, width - 1, x + kx)
             py   == ClampInt(0, height - 1, y + ky)
             idx  == (py * width + px) * 4
         IN  data[idx + ch + 1] + WindowSum(data, width, height, r, x, y, ch, k - 1)

(* One iteration of the x loop: the three sums are read from data, then
   written back into the same array *)
BlurPixel(data, width, height, r, x, y) ==
    LET count  == (2 * r + 1) * (2 * r + 1)
        outIdx == (y * width + x) * 4
        rSum   == WindowSum(data, width, height, r, x, y, 0, count)
        gSum   == WindowSum(data, width, height, r, x, y, 1, count)
        bSum   == WindowSum(data, width, height, r, x, y, 2, count)
    IN  [i \in 1..Len(data) |->
            IF i = outIdx + 1 THEN ToUint8Clamped(rSum, count)
            ELSE IF i = outIdx + 2 THEN ToUint8Clamped(gSum, count)
            ELSE IF i = outIdx + 3 THEN ToUint8Clamped(bSum, count)
            ELSE data[i]]

(* The y and x loops of one pass, from pixel number k on *)
RECURSIVE BlurPass(_, _, _, _, _)
BlurPass(data, width, height, r, k) ==
    IF k >= width * height THEN data
    ELSE BlurPass(BlurPixel(data, width, height, r, k % width, k \div width),
                  width, height, r, k + 1)

(* for (let pass = 0; pass < 2; pass++) *)
TwoPasses(data, width, height, r) ==
    BlurPass(BlurPass(data, width, height, r, 0), width, height, r, 0)

(* A binding of data to the caller's array itself *)
DataBufferAliased(img) == "caller"

(* The array the name data is bound to in applySmoothing:
   new Uint8ClampedArray(imageData.data), a fresh array with the caller's bytes *)
DataBuffer(img) == "copy"

(* The arrays after applySmoothing: the passes write into the array data is
   bound to *)
SmoothingBuffers(img, radius) ==
    [b \in {"caller", "copy"} |->
        IF b = DataBuffer(img)
        THEN TwoPasses(img.data, img.width, img.height, RFloor(radius)[1])
        ELSE img.data]

(* applySmoothing(imageData, radius) returns data *)
applySmoothing(img, radius) == SmoothingBuffers(img, radius)[DataBuffer(img)]

processedData(img, lp) ==
    IF RLt(R(0), lp.smoothing) THEN applySmoothing(img, lp.smoothing) ELSE img.data

(* imageData.data when generateLithophaneGeometry returns *)
CallerData(img, lp) ==
    IF RLt(R(0), lp.smoothing) THEN SmoothingBuffers(img, lp.smoothing)["caller"] ELSE img.data

(* processedData[idx]: undefined (NaN in arithmetic) outside the array *)
ReadByte(data, idx) ==
    IF IsFinite(idx) /\ idx[2] = 1 /\ idx[1] >= 0 /\ idx[1] < Len(data)
    THEN R(data[idx[1] + 1])
    ELSE NaN

cFactor(contrast) == RDiv(R(259 * (contrast + 255)), R(255 * (259 - contrast)))

process(val, lp) ==
    RMin(R(255),
         RMax(R(0),
              RAdd(RMul(cFactor(lp.contrast), RAdd(val, R(lp.brightness - 128))),
                   R(128))))

getPixelGray(data, img, lp, px, py) ==
    LET idx  == RMul(RAdd(RMul(py, R(img.width)), px), R(4))
        r    == ReadByte(data, idx)
        g    == ReadByte(data, RAdd(idx, R(1)))
        b    == ReadByte(data, RAdd(idx, R(2)))
        gray == RDiv(RAdd(RAdd(RMul(process(r, lp), Num(299, 1000)),
                               RMul(process(g, lp), Num(587, 1000))),
                          RMul(process(b, lp), Num(114, 1000))),
                     R(255))
    IN  IF lp.inverted THEN gray ELSE RSub(R(1), gray)

getInterpolatedVal(data, img, lp, u, v) ==
    LET x   == RMul(u, R(img.width - 1))
        y   == RMul(RSub(R(1), v), R(img.height - 1))
        x1  == RFloor(x)
        y1  == RFloor(y)
        x2  == RMin(RAdd(x1, R(1)), R(img.width - 1))
        y2  == RMin(RAdd(y1, R(1)), R(img.height - 1))
        dx  == RSub(x, x1)
        dy  == RSub(y, y1)
        v11 == getPixelGray(data, img, lp, x1, y1)
        v21 == getPixelGray(data, img, lp, x2, y1)
        v12 == getPixelGray(data, img, lp, x1, y2)
        v22 == getPixelGray(data, img, lp, x2, y2)
    IN  RAdd(RAdd(RAdd(RMul(RMul(v11, RSub(R(1), dx)), RSub(R(1), dy)),
                       RMul(RMul(v21, dx), RSub(R(1), dy))),
                  RMul(RMul(v12, RSub(R(1), dx)), dy)),
             RMul(RMul(v22, dx), dy))

gridX(img, lp) == (lp.resolution * img.width) \div img.height

gridY(img, lp) == lp.resolution

(* The relief depth of grid vertex (i, j) *)
ReliefThickness(data, img, lp, i, j) ==
    LET u    == RDiv(R(i), R(gridX(img, lp) - 1))
        v    == RDiv(R(j), R(gridY(img, lp) - 1))
        bVal == getInterpolatedVal(data, img, lp, u, v)
    IN  RAdd(RAdd(lp.baseThickness, lp.minThickness),
             RMul(bVal, RSub(lp.maxThickness, lp.minThickness)))

(* A vertex of the relief.  polar = FALSE: the point (x, y, z).
   polar = TRUE: the point (z sin x, y, z cos x - curveRadius); the angle x is
   a fraction of a turn when unit = "turn" and in radians when unit = "rad". *)
CarrierVertex(lp, u, v, depth) ==
    LET xPos == RMul(RSub(u, Num(1, 2)), lp.width)
        yPos == RMul(RSub(v, Num(1, 2)), lp.height)
    IN  IF lp.type = "flat"
        THEN [polar |-> FALSE, unit |-> "len", x |-> xPos, y |-> yPos, z |-> depth]
        ELSE IF lp.type = "cylinder"
        THEN [polar |-> TRUE, unit |-> "turn", x |-> RSub(u, Num(1, 2)), y |-> yPos,
              z |-> RAdd(lp.curveRadius, depth)]
        ELSE [polar |-> TRUE, unit |-> "rad",
              x |-> RMul(RSub(u, Num(1, 2)), RDiv(lp.width, lp.curveRadius)),
              y |-> yPos, z |-> RAdd(lp.curveRadius, depth)]

FrontVertex(data, img, lp, i, j) ==
    CarrierVertex(lp, RDiv(R(i), R(gridX(img, lp) - 1)), RDiv(R(j), R(gridY(img, lp) - 1)),
                  ReliefThickness(data, img, lp, i, j))

BackVertex(img, lp, i, j) ==
    CarrierVertex(lp, RDiv(R(i), R(gridX(img, lp) - 1)), RDiv(R(j), R(gridY(img, lp) - 1)),
                  R(0))

ReliefVertices(img, lp) ==
    LET gx   == gridX(img, lp)
        gy   == gridY(img, lp)
        n    == Max0(gx) * Max0(gy)
        data == processedData(img, lp)
    IN  [k \in 1..(2 * n) |->
            IF k <= n
            THEN FrontVertex(data, img, lp, (k - 1) % gx, (k - 1) \div gx)
            ELSE BackVertex(img, lp, (k - n - 1) % gx, (k - n - 1) \div gx)]

(* 3. Indices for Front & Back: the twelve indices pushed for cell (i, j) *)
CellIndices(gx, backOffset, i, j) ==
    LET a == j * gx + i
        b == j * gx + (i + 1)
        c == (j + 1) * gx + i
        d == (j + 1) * gx + (i + 1)
    IN  <<a, c, b, b, c, d,
          a + backOffset, b + backOffset, c + backOffset,
          b + backOffset, d + backOffset, c + backOffset>>

addSide(idx1, idx2, idx3, idx4) == <<idx1, idx2, idx3, idx2, idx4, idx3>>

(* Side walls whose top strip is stitched along the bottom row *)
BottomTopIndicesOnBottomRow(gx, gy, backOffset, i) ==
    addSide(i, i + 1, i + backOffset, i + 1 + backOffset)
    \o addSide(i + 1, i, i + 1 + backOffset, i + backOffset)

BottomTopIndices(gx, gy, backOffset, i) ==
    LET topStart == (gy - 1) * gx
    IN  addSide(i, i + 1, i + backOffset, i + 1 + backOffset)
        \o addSide(topStart + i + 1, topStart + i,
                   topStart + i + 1 + backOffset, topStart + i + backOffset)

LeftRightIndices(gx, backOffset, j) ==
    LET left1  == j * gx
        left2  == (j + 1) * gx
        right1 == j * gx + (gx - 1)
        right2 == (j + 1) * gx + (gx - 1)
    IN  addSide(left2, left1, left2 + backOffset, left1 + backOffset)
        \o addSide(right1, right2, right1 + backOffset, right2 + backOffset)

ReliefIndices(img, lp) ==
    LET gx         == gridX(img, lp)
        gy         == gridY(img, lp)
        backOffset == Max0(gx) * Max0(gy)
        cx         == Max0(gx - 1)
        cy         == Max0(gy - 1)
        faces == [k \in 1..(12 * cx * cy) |->
                     CellIndices(gx, backOffset, ((k - 1) \div 12) % cx,
                                 ((k - 1) \div 12) \div cx)[((k - 1) % 12) + 1]]
        sidesX == [k \in 1..(12 * cx) |->
                     BottomTopIndices(gx, gy, backOffset, (k - 1) \div 12)[((k - 1) % 12) + 1]]
        sidesY == [k \in 1..(12 * cy) |->
                     LeftRightIndices(gx, backOffset, (k - 1) \div 12)[((k - 1) % 12) + 1]]
    IN  faces \o sidesX \o sidesY

generateLithophaneGeometry(img, lp) ==
    [position |-> ReliefVertices(img, lp), index |-> ReliefIndices(img, lp)]

----------------------------------------------------------------------------
(* Inputs of the relief generator *)

MaxImageSide == 2

MaxResolution == 3

White == <<255, 255, 255, 255>>

Black == <<0, 0, 0, 255>>

Red == <<255, 0, 0, 255>>

Gray == <<128, 128, 128, 128>>

Palette == <<White, Black, Red, Gray>>

(* An ImageData of w x h RGBA pixels: one colour (mixed = FALSE) or the
   palette repeated from colour s on (mixed = TRUE) *)
MkImage(w, h, s, mixed) ==
    [width |-> w, height |-> h,
     data |-> [i \in 1..(4 * w * h) |->
                  Palette[(((IF mixed THEN (i - 1) \div 4 ELSE 0) + s) % 4) + 1][((i - 1) % 4) + 1]]]

UniformImages ==
    {MkImage(w, h, s, FALSE) : w \in 1..MaxImageSide, h \in 1..MaxImageSide, s \in 0..3}

MixedImages ==
    {MkImage(w, h, s, TRUE) : w \in 1..MaxImageSide, h \in 1..MaxImageSide, s \in 0..1}

(* Tall images of one column: resolution * width / height can be below 1 *)
StripImages == {MkImage(1, MaxImageSide + 1, s, FALSE) : s \in 0..1}

Images == UniformImages \cup MixedImages \cup StripImages

CoreImages == {MkImage(w, h, 0, TRUE) : w \in 1..MaxImageSide, h \in 1..MaxImageSide}

DefaultLParams ==
    [type |-> "flat", width |-> R(10), height |-> R(10),
     minThickness |-> Num(6, 10), maxThickness |-> R(3), baseThickness |-> Num(1, 2),
     curveRadius |-> R(15), resolution |-> 2, inverted |-> FALSE,
     brightness |-> 0, contrast |-> 0, smoothing |-> R(0)]

ReliefDimensions ==
    {<<Num(6, 10), R(3), R(10), R(10)>>, <<R(3), Num(6, 10), R(10), R(10)>>,
     <<R(1), R(1), R(10), R(10)>>, <<Num(6, 10), R(3), R(0), R(10)>>,
     <<Num(6, 10), R(3), R(10), R(-5)>>}

LParamsFor(img) ==
    {[DefaultLParams EXCEPT !.resolution = res, !.inverted = inv] :
        res \in 1..MaxResolution, inv \in BOOLEAN}
    \cup
    (IF img \in MixedImages
     THEN {[DefaultLParams EXCEPT !.resolution = res, !.smoothing = sm] :
              res \in 2..MaxResolution, sm \in {Num(1, 2), R(1)}}
          \cup
          {[DefaultLParams EXCEPT !.resolution = MaxResolution, !.inverted = inv,
                                  !.brightness = b, !.contrast = c] :
              inv \in BOOLEAN, b \in {-100, 0, 60}, c \in {0, 2}}
     ELSE {})
    \cup
    (IF img \in CoreImages
     THEN {[DefaultLParams EXCEPT !.resolution = res,
                                  !.minThickness = d[1], !.maxThickness = d[2],
                                  !.width = d[3], !.height = d[4]] :
              res \in 1..MaxResolution, d \in ReliefDimensions}
          \cup
          {[DefaultLParams EXCEPT !.type = ty, !.resolution = res] :
              ty \in {"curved", "arc", "cylinder", "sphere"}, res \in 1..MaxResolution}
     ELSE {})

----------------------------------------------------------------------------
(* Inputs of the shape generator *)

MaxSegments == 4

MaxInternalRibs == 2

(* DEFAULT_PARAMS, with small counts *)
DefaultParams ==
    [type |-> "ribbed_drum", silhouette |-> "straight",
     height |-> R(15), topRadius |-> R(5), bottomRadius |-> R(8), thickness |-> Num(8, 10),
     segments |-> 3, seed |-> 1234, internalRibs |-> 0, ribThickness |-> Num(2, 10),
     fitterType |-> "none", fitterDiameter |-> R(27), fitterHeight |-> R(3),
     ribCount |-> 24, ribDepth |-> Num(4, 10), twistAngle |-> 0,
     amplitude |-> R(1), frequency |-> 5, gridDensity |-> 2,
     foldCount |-> 12, foldDepth |-> Num(8, 10),
     noiseScale |-> Num(1, 2), noiseStrength |-> Num(1, 2), slotCount |-> 2,
     sides |-> 6, gapDistance |-> Num(1, 2)]

LampshadeTypes ==
    {"ribbed_drum", "spiral_twist", "voronoi", "wave_shell", "geometric_poly", "lattice",
     "origami", "perlin_noise", "slotted", "double_wall", "organic_cell"}

SilhouetteTypes == {"straight", "hourglass", "bell", "convex", "concave"}

ShapeParams ==
    {[DefaultParams EXCEPT !.type = ty, !.segments = seg,
                           !.fitterType = att[1], !.internalRibs = att[2]] :
        ty \in LampshadeTypes \cup {"pyramid"}, seg \in 2..MaxSegments,
        att \in {<<"none", 0>>, <<"spider", 0>>, <<"uno", 1>>, <<"none", MaxInternalRibs>>}}
    \cup
    {[DefaultParams EXCEPT !.type = ty, !.silhouette = sil] :
        ty \in {"ribbed_drum", "spiral_twist", "lattice"}, sil \in SilhouetteTypes}
    \cup
    {[DefaultParams EXCEPT !.type = ty, !.height = d[1], !.topRadius = d[2],
                           !.thickness = d[3]] :
        ty \in {"ribbed_drum", "spiral_twist"},
        d \in {<<R(0), R(5), Num(8, 10)>>, <<R(-5), R(5), Num(8, 10)>>,
               <<R(15), R(-1), Num(8, 10)>>, <<R(15), R(5), R(6)>>}}
    \cup
    {[DefaultParams EXCEPT !.type = "spiral_twist", !.twistAngle = tw, !.segments = seg] :
        tw \in {0, 90, 360}, seg \in 3..MaxSegments}
    \cup
    {[DefaultParams EXCEPT !.ribCount = rc, !.ribDepth = rd, !.segments = seg] :
        rc \in {0, 5, 7}, rd \in {R(0), Num(4, 10), R(1)}, seg \in 3..MaxSegments}
    \cup
    {[DefaultParams EXCEPT !.type = "origami", !.foldCount = fc, !.segments = seg] :
        fc \in {2, 3, 12}, seg \in 3..MaxSegments}
    \cup
    {[DefaultParams EXCEPT !.type = ty, !.silhouette = sil, !.topRadius = d[1],
                           !.bottomRadius = d[2], !.thickness = d[3]] :
        ty \in {"wave_shell", "perlin_noise"}, sil \in {"straight", "hourglass", "concave"},
        d \in {<<R(0), R(0), Num(8, 10)>>, <<R(-1), R(8), Num(8, 10)>>,
               <<R(5), Num(1, 20), Num(8, 10)>>, <<R(5), R(8), R(6)>>}}
    \cup
    {[DefaultParams EXCEPT !.type = tr[1], !.ribCount = tr[2], !.fitterType = ft,
                           !.fitterDiameter = fd, !.fitterHeight = fh] :
        tr \in {<<"voronoi", 24>>, <<"ribbed_drum", 5>>}, ft \in {"spider", "uno"},
        fd \in {R(27), R(150), R(200)}, fh \in {R(0), R(3)}}

----------------------------------------------------------------------------
(* The page: Index, ControlPanel and LampshadeViewport *)

(* The most geometries a run of the page generates *)
MaxGenerations == 4

(* The stops of a slider's track the thumb is put at: 0..SliderStops *)
SliderStops == 2

(* DEFAULT_PARAMS as the page declares it (the fields the generator reads) *)
DEFAULT_PARAMS ==
    [DefaultParams EXCEPT !.segments = 64, !.fitterType = "spider",
                          !.gridDensity = 10, !.slotCount = 16]

(* The material objects: DEFAULT_MATERIAL and the presets of MATERIALS *)
DEFAULT_MATERIAL == "DEFAULT_MATERIAL"

MATERIALS == {"Matte White PLA", "Silk Gold", "Translucent PETG"}

(* <Slider min max step={1}>: the value emitted with the thumb at stop k *)
Slider(min, max, k) == min + (2 * (max - min) * k + SliderStops) \div (2 * SliderStops)

(* parseFloat(e.target.value) || 0; an empty field parses to NaN *)
NumberInput(v) == ROr(v, R(0))

(* setParams({ ...params, [key]: value }) *)
updateParam(p, key, value) == [p EXCEPT ![key] = value]

(* The keys and values the controls pass to updateParam *)
ControlInputs ==
    {<<"segments", Slider(12, 128, k)>> : k \in 0..SliderStops}
    \cup {<<"type", ty>> : ty \in {"spiral_twist", "lattice"}}
    \cup {<<"height", NumberInput(v)>> : v \in {NaN, R(20)}}

(* The values of the calls of Math.random() in handleRandomize, each in [0, 1) *)
RandomDraws ==
    {[type |-> a, silhouette |-> a, height |-> a, topRadius |-> a, bottomRadius |-> a,
      seed |-> a, ribsGate |-> g, ribs |-> a] :
        a \in {R(0), Num(1, 2)}, g \in {R(0), Num(9, 10)}}

(* A handleRandomize that draws the segment count as well *)
handleRandomizeEveryCount(p, r) ==
    [p EXCEPT !.seed = RFloor(RMul(r.seed, R(10000)))[1],
              !.segments = RFloor(RMul(r.ribs, R(8)))[1]]

(* handleRandomize: the params it sets; the seed is kept to its integer part *)
handleRandomize(p, r) ==
    LET types == <<"ribbed_drum", "spiral_twist", "voronoi", "wave_shell",
                   "geometric_poly", "lattice", "origami", "double_wall">>
        silhouettes == <<"straight", "hourglass", "bell", "convex", "concave">>
    IN
    [p EXCEPT !.type = types[RFloor(RMul(r.type, R(8)))[1] + 1],
              !.silhouette = silhouettes[RFloor(RMul(r.silhouette, R(5)))[1] + 1],
              !.height = RAdd(R(12), RMul(r.height, R(12))),
              !.topRadius = RAdd(R(4), RMul(r.topRadius, R(6))),
              !.bottomRadius = RAdd(R(6), RMul(r.bottomRadius, R(8))),
              !.seed = RFloor(RMul(r.seed, R(10000)))[1],
              !.internalRibs = IF RLt(Num(7, 10), r.ribsGate)
                               THEN RFloor(RMul(r.ribs, R(8)))[1] ELSE 0]

(* meshRef.current of the viewport before its mount effect has run *)
NoMesh == [geometry |-> 0, material |-> "", wireframe |-> FALSE, positionY |-> R(0)]

(* What handleExport has serialized: nothing yet *)
NoExport == [geometry |-> 0, params |-> DEFAULT_PARAMS]

(* A geometry object: the params generateLampshadeGeometry built it from and
   the number of calls of its dispose() *)
NewGeometry(p) == [from |-> p, disposed |-> 0]

(* A dispose() that releases nothing *)
disposeNothing(gs, g) == gs

(* geometries[g].dispose() *)
dispose(gs, g) == [gs EXCEPT ![g].disposed = @ + 1]

(* new THREE.Mesh(geometry, meshMaterial) with position.y = params.height / 2 *)
MeshOf(g, p, mat, wf) ==
    [geometry |-> g, material |-> mat, wireframe |-> wf, positionY |-> RDiv(p.height, R(2))]

(* The mount effect: the first geometry and the mesh that carries it *)
MountEffect(gs, p, mat, wf) ==
    [geometries |-> Append(gs, NewGeometry(p)), mesh |-> MeshOf(Len(gs) + 1, p, mat, wf)]

(* The effect of [params, material, showWireframe]: generate, dispose the
   geometry of the mesh, attach the new one, refresh the material *)
UpdateEffect(gs, m, p, mat, wf) ==
    IF m = NoMesh THEN [geometries |-> gs, mesh |-> m]
    ELSE [geometries |-> dispose(Append(gs, NewGeometry(p)), m.geometry),
          mesh |-> MeshOf(Len(gs) + 1, p, mat, wf)]

(* The page as first rendered, before its effects have run *)
PageAtRest ==
    /\ material = DEFAULT_MATERIAL
    /\ showWireframe = FALSE
    /\ pristine = TRUE
    /\ mesh = NoMesh
    /\ meshRef = "null"
    /\ geometries = <<>>
    /\ exported = NoExport

----------------------------------------------------------------------------
(* The calls *)

NoImage == [width |-> 0, height |-> 0, data |-> <<>>]

Init ==
    /\ pc = "shape_call"
    /\ params \in ShapeParams
    /\ geometry = NoGeometry
    /\ imageData = NoImage
    /\ lparams = DefaultLParams
    /\ relief = NoGeometry
    /\ outcome = "pending"
    /\ processed = <<>>
    /\ PageAtRest

InitRelief ==
    /\ pc = "relief_call"
    /\ imageData \in Images
    /\ lparams \in LParamsFor(imageData)
    /\ params = DefaultParams
    /\ geometry = NoGeometry
    /\ relief = NoGeometry
    /\ outcome = "pending"
    /\ processed = <<>>
    /\ PageAtRest

(* generateLampshadeGeometry(params): no statement of the function throws or
   validates; it always returns the geometry it built *)
GenerateShape ==
    /\ pc = "shape_call"
    /\ geometry' = generateLampshadeGeometry(params)
    /\ outcome' = "returned"
    /\ pc' = "shape_done"
    /\ UNCHANGED <<params, imageData, lparams, relief, processed>>
    /\ UNCHANGED <<material, showWireframe, pristine, mesh, meshRef, geometries, exported>>

(* generateLithophaneGeometry(imageData, params): likewise; processed is the
   array the sampler read, imageData the caller's image after the call *)
GenerateRelief ==
    /\ pc = "relief_call"
    /\ relief' = generateLithophaneGeometry(imageData, lparams)
    /\ processed' = processedData(imageData, lparams)
    /\ imageData' = [imageData EXCEPT !.data = CallerData(imageData, lparams)]
    /\ outcome' = "returned"
    /\ pc' = "relief_done"
    /\ UNCHANGED <<params, geometry, lparams>>
    /\ UNCHANGED <<material, showWireframe, pristine, mesh, meshRef, geometries, exported>>

Next == GenerateShape

Spec == Init /\ [][Next]_vars

NextRelief == GenerateRelief

SpecRelief == InitRelief /\ [][NextRelief]_vars

----------------------------------------------------------------------------
(* The page's handlers and effects.  A handler's step includes the render its
   setState calls cause and the effects of that render: React runs them before
   it handles the next event. *)

InitUI ==
    /\ pc = "ui_render"
    /\ params = DEFAULT_PARAMS
    /\ geometry = NoGeometry
    /\ imageData = NoImage
    /\ lparams = DefaultLParams
    /\ relief = NoGeometry
    /\ outcome = "pending"
    /\ processed = <<>>
    /\ PageAtRest

(* The render with props p, mat, wf whose dependencies have changed *)
Rerender(p, mat, wf) ==
    /\ Len(geometries) < MaxGenerations
    /\ geometries' = UpdateEffect(geometries, mesh, p, mat, wf).geometries
    /\ mesh' = UpdateEffect(geometries, mesh, p, mat, wf).mesh

(* The first commit: the mount effect, handleSceneReady, then the update
   effect, which runs on mount as every effect does *)
Mount ==
    /\ pc = "ui_render"
    /\ geometries' = UpdateEffect(MountEffect(geometries, params, material, showWireframe).geometries,
                                  MountEffect(geometries, params, material, showWireframe).mesh,
                                  params, material, showWireframe).geometries
    /\ mesh' = UpdateEffect(MountEffect(geometries, params, material, showWireframe).geometries,
                            MountEffect(geometries, params, material, showWireframe).mesh,
                            params, material, showWireframe).mesh
    /\ meshRef' = "mesh"
    /\ pc' = "ui_mounted"
    /\ UNCHANGED <<params, material, showWireframe, pristine, exported, outcome>>
    /\ UNCHANGED <<geometry, imageData, lparams, relief, processed>>

(* A control of the panel calls updateParam(key, value) *)
UpdateParam ==
    /\ pc = "ui_mounted"
    /\ \E kv \in ControlInputs :
          /\ params' = updateParam(params, kv[1], kv[2])
          /\ Rerender(updateParam(params, kv[1], kv[2]), material, showWireframe)
    /\ pristine' = FALSE
    /\ UNCHANGED <<pc, material, showWireframe, meshRef, exported, outcome>>
    /\ UNCHANGED <<geometry, imageData, lparams, relief, processed>>

(* A material preset button: setMaterial(m); the same object again changes nothing *)
SetMaterial ==
    /\ pc = "ui_mounted"
    /\ \E m \in MATERIALS :
          /\ m # material
          /\ material' = m
          /\ Rerender(params, m, showWireframe)
    /\ UNCHANGED <<pc, params, showWireframe, pristine, meshRef, exported, outcome>>
    /\ UNCHANGED <<geometry, imageData, lparams, relief, processed>>

(* The wireframe switch: setShowWireframe(checked) *)
SetShowWireframe ==
    /\ pc = "ui_mounted"
    /\ showWireframe' = ~showWireframe
    /\ Rerender(params, material, ~showWireframe)
    /\ UNCHANGED <<pc, params, material, pristine, meshRef, exported, outcome>>
    /\ UNCHANGED <<geometry, imageData, lparams, relief, processed>>

(* handleReset: setParams(DEFAULT_PARAMS); setMaterial(DEFAULT_MATERIAL); with
   both objects already in place no state changes and nothing renders *)
HandleReset ==
    /\ pc = "ui_mounted"
    /\ params' = DEFAULT_PARAMS
    /\ material' = DEFAULT_MATERIAL
    /\ pristine' = TRUE
    /\ IF pristine /\ material = DEFAULT_MATERIAL
       THEN UNCHANGED <<geometries, mesh>>
       ELSE Rerender(DEFAULT_PARAMS, DEFAULT_MATERIAL, showWireframe)
    /\ UNCHANGED <<pc, showWireframe, meshRef, exported, outcome>>
    /\ UNCHANGED <<geometry, imageData, lparams, relief, processed>>

(* handleRandomize *)
HandleRandomize ==
    /\ pc = "ui_mounted"
    /\ \E r \in RandomDraws :
          /\ params' = handleRandomize(params, r)
          /\ Rerender(handleRandomize(params, r), material, showWireframe)
    /\ pristine' = FALSE
    /\ UNCHANGED <<pc, material, showWireframe, meshRef, exported, outcome>>
    /\ UNCHANGED <<geometry, imageData, lparams, relief, processed>>

(* handleExport: STLExporter.parse(meshRef.current), the mesh with the
   geometry it carries; without a mesh an error toast and nothing else *)
HandleExport ==
    /\ IF meshRef = "null"
       THEN outcome' = "Geometry not ready for export" /\ UNCHANGED exported
       ELSE /\ exported' = [geometry |-> mesh.geometry, params |-> params]
            /\ outcome' = "exported"
    /\ UNCHANGED <<pc, params, material, showWireframe, pristine, mesh, meshRef, geometries>>
    /\ UNCHANGED <<geometry, imageData, lparams, relief, processed>>

NextUI ==
    \/ Mount
    \/ UpdateParam
    \/ SetMaterial
    \/ SetShowWireframe
    \/ HandleReset
    \/ HandleRandomize
    \/ HandleExport

SpecUI == InitUI /\ [][NextUI]_vars

----------------------------------------------------------------------------
(* Properties of the shape generator (specification Spec) *)

(* The parameter invariant of the data model: segments >= 3, height > 0,
   radii >= 0, 0 < thickness < the smaller radius *)
ValidShapeParams(p) ==
    /\ p.segments >= 3
    /\ RLt(R(0), p.height)
    /\ RLe(R(0), p.topRadius)
    /\ RLe(R(0), p.bottomRadius)
    /\ RLt(R(0), p.thickness)
    /\ RLt(p.thickness, RMin(p.topRadius, p.bottomRadius))

WellFormed(g) ==
    /\ Len(g.index) % 3 = 0
    /\ \A k \in 1..Len(g.index) : g.index[k] >= 0 /\ g.index[k] < Len(g.position)

(* C1: for every valid parameter set the returned mesh is well-formed: every
   index is smaller than the vertex count and the index count is a multiple
   of 3, also after ribs, fitter, fins, struts and rings are merged. *)
C1_MeshWellFormed ==
    (pc = "shape_done" /\ ValidShapeParams(params)) => WellFormed(geometry)

C1_Witness ==
    /\ pc = "shape_done"
    /\ ValidShapeParams(params)
    /\ params.type = "slotted"
    /\ params.internalRibs > 0
    /\ params.fitterType # "none"
    /\ Len(geometry.index) > 0

(* C2: a call with fewer than 3 angular segments fails with InvalidParameter
   and returns no mesh. *)
C2_SegmentsBelow3Rejected ==
    (pc = "shape_done" /\ params.segments < 3)
        => (outcome = "InvalidParameter" /\ geometry = NoGeometry)

(* C3: a call with a negative radius, height <= 0 or thickness >= min(topRadius,
   bottomRadius) fails with InvalidParameter and returns no mesh. *)
C3_InvalidDimensionsRejected ==
    (/\ pc = "shape_done"
     /\ \/ RLt(params.topRadius, R(0))
        \/ RLt(params.bottomRadius, R(0))
        \/ RLe(params.height, R(0))
        \/ RLe(RMin(params.topRadius, params.bottomRadius), params.thickness))
        => (outcome = "InvalidParameter" /\ geometry = NoGeometry)

(* C5: a shape type outside the known set makes the call fail with
   UnsupportedShapeType; no default shape is returned for it. *)
C5_UnknownShapeTypeRejected ==
    (pc = "shape_done" /\ params.type \notin LampshadeTypes)
        => (outcome = "UnsupportedShapeType" /\ geometry = NoGeometry)

(* A vertex of one mesh is the same point as a vertex of another *)
SamePoint(v, w) ==
    /\ v.x = w.x
    /\ v.y = w.y
    /\ v.z = w.z
    /\ IsFinite(RSub(v.rot, w.rot))
    /\ RSub(v.rot, w.rot)[2] = 1

(* The undisplaced revolution mesh of the parameters *)
RevolutionMesh(p) == LatheGeometry(getClosedProfilePoints(p, ProfileSteps, NaN), p.segments)

(* C10: for spiral_twist with twistAngle = 0 every vertex of the returned shell
   equals the corresponding vertex of the undisplaced revolution mesh. *)
C10_ZeroTwistIsIdentity ==
    (/\ pc = "shape_done"
     /\ params.type = "spiral_twist"
     /\ params.twistAngle = 0
     /\ ValidShapeParams(params))
        => \A k \in 1..Len(RevolutionMesh(params).position) :
              SamePoint(geometry.position[k], RevolutionMesh(params).position[k])

(* The swept shell of a call without ribs and fitter is the whole mesh *)
ShellOnly == params.internalRibs = 0 /\ params.fitterType = "none"

(* The distance of shell vertex k from the axis, less that of the same vertex
   of the undisplaced revolution mesh ref *)
RadialShift(ref, k) ==
    RSub(VertexRadius(geometry.position[k]), VertexRadius(ref.position[k]))

(* C11: for ribbed_drum the radial displacement of every shell vertex has a
   magnitude of at most ribDepth, for every ribDepth >= 0 and every ribCount. *)
C11_RibDisplacementBounded ==
    (/\ pc = "shape_done"
     /\ params.type = "ribbed_drum"
     /\ ValidShapeParams(params)
     /\ RLe(R(0), params.ribDepth))
        => \A ref \in {RevolutionMesh(params)} :
              \A k \in 1..Len(ref.position) :
                  /\ RLe(RadialShift(ref, k), params.ribDepth)
                  /\ RLe(RNeg(params.ribDepth), RadialShift(ref, k))

(* C11 for a rib depth other than 0 *)
C11_BoundedForNonZeroDepth ==
    (/\ pc = "shape_done"
     /\ params.type = "ribbed_drum"
     /\ ValidShapeParams(params)
     /\ RLt(R(0), params.ribDepth))
        => \A ref \in {RevolutionMesh(params)} :
              \A k \in 1..Len(ref.position) :
                  /\ RLe(RadialShift(ref, k), params.ribDepth)
                  /\ RLe(RNeg(params.ribDepth), RadialShift(ref, k))

(* topRadius + (bottomRadius - topRadius) * t *)
LinearRadius(p, t) == RAdd(p.topRadius, RMul(RSub(p.bottomRadius, p.topRadius), t))

(* The shape types whose shell keeps the radii of the swept profile *)
UndisplacedTypes ==
    (LampshadeTypes \cup {"pyramid"})
        \ {"organic_cell", "perlin_noise", "wave_shell", "ribbed_drum", "slotted", "lattice"}

(* C12: with silhouette straight the radius at normalized height t is exactly
   topRadius + (bottomRadius - topRadius) * t, with no modulation; the outer
   wall of the swept shell carries that radius (at least 0.1) at every profile
   height. *)
C12_StraightIsLinear ==
    (/\ pc = "shape_done"
     /\ params.silhouette = "straight"
     /\ RSign(params.height) # 0)
        => \A i \in 0..ProfileSteps :
              /\ getRadiusAtHeight(ProfileHeight(params, i, ProfileSteps), params)
                    = LinearRadius(params, Num(i, ProfileSteps))
              /\ params.type \in UndisplacedTypes
                    => VertexRadius(geometry.position[i + 1])
                         = RMax(Num(1, 10), LinearRadius(params, Num(i, ProfileSteps)))

C12_Witness ==
    /\ pc = "shape_done"
    /\ params.silhouette = "straight"
    /\ params.type = "voronoi"
    /\ params.topRadius = R(5)
    /\ params.bottomRadius = R(8)
    /\ VertexRadius(geometry.position[31]) = Num(13, 2)

(* The shape types built as one revolution sweep of the closed profile *)
SweptTypes == (LampshadeTypes \cup {"pyramid"}) \ {"slotted", "lattice"}

(* A call for a revolution-swept shape without ribs and fitter has returned *)
SweptShellCall ==
    /\ pc = "shape_done"
    /\ params.type \in SweptTypes
    /\ ShellOnly
    /\ params.segments >= 3

(* C13 as stated: a revolution-swept shape without ribs and fitter has
   2 * (steps + 1) * segments vertices, steps = 60. *)
C13_VertexCountPerSegment ==
    SweptShellCall => Len(geometry.position) = 2 * (ProfileSteps + 1) * params.segments

(* C13, amended: a revolution-swept shape without ribs and fitter has
   2 * (steps + 1) * (segments + 1) vertices, steps = 60: the sweep stores the
   profile once per segment and once more where the last segment meets the
   first. *)
C13_VertexCountWithSeam ==
    SweptShellCall => Len(geometry.position) = 2 * (ProfileSteps + 1) * (params.segments + 1)

C13_Witness ==
    /\ SweptShellCall
    /\ params.type = "wave_shell"
    /\ params.segments = 4
    /\ Len(geometry.position) = 610

(* Triangle t of the returned mesh is a rim face at height y: two of its
   corners lie at height y, one on the outer and one on the inner wall *)
RimFace(t, y) ==
    \E c, d \in 1..3 :
        /\ geometry.position[geometry.index[3 * (t - 1) + c] + 1].y = y
        /\ geometry.position[geometry.index[3 * (t - 1) + d] + 1].y = y
        /\ VertexRadius(geometry.position[geometry.index[3 * (t - 1) + c] + 1])
             # VertexRadius(geometry.position[geometry.index[3 * (t - 1) + d] + 1])

RimAt(y) == \E t \in 1..(Len(geometry.index) \div 3) : RimFace(t, y)

(* A call for an undisplaced swept shell of valid parameters has returned *)
PlainShellCall ==
    /\ pc = "shape_done"
    /\ params.type \in UndisplacedTypes
    /\ ShellOnly
    /\ ValidShapeParams(params)

(* C14: the profile handed to the sweep is a closed loop, the outer and the
   inner wall joined at both ends, so the base shell has rim faces at the end
   y = +height / 2 and at the end y = -height / 2. *)
C14_RimFacesAtBothEnds ==
    PlainShellCall
        => /\ RimAt(RDiv(params.height, R(2)))
           /\ RimAt(RDiv(RNeg(params.height), R(2)))

(* C14 at the end where the outer wall turns into the inner wall *)
C14_RimFacesAtUpperEnd ==
    PlainShellCall => RimAt(RDiv(params.height, R(2)))

(* C14 at the end where the profile starts and stops: no rim face *)
C14_NoRimFaceAtLowerEnd ==
    PlainShellCall => ~RimAt(RDiv(RNeg(params.height), R(2)))

(* The shape types whose shell is the revolution mesh with moved vertices *)
DisplacedTypes ==
    {"ribbed_drum", "wave_shell", "perlin_noise", "organic_cell", "spiral_twist"}

(* C15: the displacement strategies (ribbed_drum, wave_shell, perlin_noise,
   organic_cell, spiral_twist) change only the x and z of the vertices: the
   vertex count, the index buffer and every y are those of the undisplaced
   revolution mesh. *)
C15_DisplacementKeepsTopology ==
    (/\ pc = "shape_done"
     /\ params.type \in DisplacedTypes
     /\ ShellOnly)
        => \A ref \in {RevolutionMesh(params)} :
              /\ Len(geometry.position) = Len(ref.position)
              /\ geometry.index = ref.index
              /\ \A k \in 1..Len(ref.position) : geometry.position[k].y = ref.position[k].y

C15_Witness ==
    /\ pc = "shape_done"
    /\ params.type = "wave_shell"
    /\ ShellOnly
    /\ ValidShapeParams(params)
    /\ \E ref \in {RevolutionMesh(params)} :
          \E k \in 1..Len(ref.position) :
              /\ geometry.position[k].z # ref.position[k].z
              /\ RSign(ref.position[k].y) # 0
              /\ geometry.position[k].y = ref.position[k].y

(* The fold index round(angle / (2 pi) * 2 * foldCount) of a vertex *)
FoldIndex(v) == RRound(RMul(VertexAngle(v), R(2 * params.foldCount)))

(* C20: for origami every shell vertex is displaced radially by 0 when its
   fold index round(angle / (2 pi) * 2 * foldCount) is even and by -foldDepth
   when it is odd. *)
C20_OrigamiFolds ==
    (/\ pc = "shape_done"
     /\ params.type = "origami"
     /\ ValidShapeParams(params))
        => \A ref \in {RevolutionMesh(params)} :
              \A k \in 1..Len(ref.position) :
                  RadialShift(ref, k)
                      = IF FoldIndex(ref.position[k])[1] % 2 = 0 THEN R(0)
                        ELSE RNeg(params.foldDepth)

(* For origami the returned shell is the undisplaced revolution mesh *)
C20_OrigamiUndisplaced ==
    (/\ pc = "shape_done"
     /\ params.type = "origami"
     /\ ValidShapeParams(params))
        => \A ref \in {RevolutionMesh(params)} :
              \A k \in 1..Len(ref.position) : geometry.position[k] = ref.position[k]

(* The angular positions of the vertices of the returned mesh, as fractions
   of a turn in [0, 1) *)
AngularPositions ==
    {RSub(geometry.position[k].rot, RFloor(geometry.position[k].rot)) :
        k \in 1..Len(geometry.position)}

(* C21: for geometric_poly the base mesh is a straight N-gon frustum whose
   number of angular sides is params.sides, whatever params.segments is, with
   no displacement. *)
C21_PolyHasSidesSides ==
    (/\ pc = "shape_done"
     /\ params.type = "geometric_poly"
     /\ ShellOnly
     /\ ValidShapeParams(params))
        => Cardinality(AngularPositions) = params.sides

(* For geometric_poly the returned mesh is the swept shell of params.segments
   segments *)
C21_PolyIsSweptShell ==
    (/\ pc = "shape_done"
     /\ params.type = "geometric_poly"
     /\ ShellOnly
     /\ ValidShapeParams(params))
        => /\ geometry = RevolutionMesh(params)
           /\ Cardinality(AngularPositions) = params.segments

(* The returned mesh has a vertex at height y and distance r from the axis *)
VertexAt(y, r) ==
    \E k \in 1..Len(geometry.position) :
        geometry.position[k].y = y /\ VertexRadius(geometry.position[k]) = r

(* The returned mesh has a vertex at angle a (a fraction of a turn) whose
   distance from the axis lies between the two shells *)
StrutAt(a) ==
    \E k \in 1..Len(geometry.position) :
        /\ RSub(geometry.position[k].rot, RFloor(geometry.position[k].rot)) = a
        /\ RLt(RSub(getRadiusAtHeight(geometry.position[k].y, params), params.gapDistance),
               VertexRadius(geometry.position[k]))
        /\ RLt(VertexRadius(geometry.position[k]),
               getRadiusAtHeight(geometry.position[k].y, params))

(* C22: for double_wall the mesh consists of two concentric shells, the inner
   one offset inward by gapDistance, plus params.ribCount connecting struts at
   evenly spaced angles. *)
C22_DoubleWall ==
    (/\ pc = "shape_done"
     /\ params.type = "double_wall"
     /\ ShellOnly
     /\ ValidShapeParams(params))
        => /\ \A y \in {RDiv(params.height, R(2)), RDiv(RNeg(params.height), R(2))} :
                 /\ VertexAt(y, getRadiusAtHeight(y, params))
                 /\ VertexAt(y, RSub(getRadiusAtHeight(y, params), params.gapDistance))
           /\ \A i \in 0..(params.ribCount - 1) : StrutAt(Num(i, params.ribCount))

(* For double_wall the returned mesh is the swept shell: one wall of the
   thickness params.thickness, no strut *)
C22_DoubleWallIsSweptShell ==
    (/\ pc = "shape_done"
     /\ params.type = "double_wall"
     /\ ShellOnly
     /\ ValidShapeParams(params))
        => /\ geometry = RevolutionMesh(params)
           /\ \A i \in 0..(params.ribCount - 1) : ~StrutAt(Num(i, params.ribCount))

(* The vertices of a torus of 8 radial and 32 tubular segments, and of a box
   of one segment per side *)
RingVertexCount == (8 + 1) * (32 + 1)

SpokeVertexCount == 24

(* |a - b| <= d *)
Within(a, b, d) == RLe(RSub(a, b), d) /\ RLe(RSub(b, a), d)

(* Vertices first + 1 .. first + RingVertexCount of the returned mesh lie on a
   ring about the axis: within the tube radius 0.15 of the circle of radius
   fitterDiameter / 20 at height height / 2 - fitterHeight *)
RingAfter(first) ==
    \A k \in (first + 1)..(first + RingVertexCount) :
        /\ geometry.position[k].x = R(0)
        /\ Within(geometry.position[k].z, RDiv(params.fitterDiameter, R(20)), Num(15, 100))
        /\ Within(geometry.position[k].y,
                  RSub(RDiv(params.height, R(2)), params.fitterHeight), Num(15, 100))

(* The count spokes that follow the ring: spoke i a box turned by i / count of
   a turn, leaving the ring outwards at the height of the ring *)
SpokesAfter(first, count) ==
    \A i \in 0..(count - 1) :
        \A k \in (first + RingVertexCount + i * SpokeVertexCount + 1)
                  ..(first + RingVertexCount + (i + 1) * SpokeVertexCount) :
            /\ geometry.position[k].rot = Num(i, count)
            /\ RLe(RDiv(params.fitterDiameter, R(20)), geometry.position[k].x)
            /\ Within(geometry.position[k].y,
                      RSub(RDiv(params.height, R(2)), params.fitterHeight), Num(15, 100))

FitterSpokes == IF params.fitterType = "spider" THEN 3 ELSE 4

(* C23: a fitter sub-mesh is merged into the result if and only if fitterType
   is not none; it is one ring of radius fitterDiameter / 20 at height
   H / 2 - fitterHeight and exactly 3 spokes for spider, exactly 4 for uno,
   spoke i at angle i * 2 pi / spokeCount. *)
C23_FitterRingAndSpokes ==
    (pc = "shape_done" /\ params.fitterType \in {"none", "spider", "uno"})
        => \A base \in {WithRibs(params, BaseGeometry(params))} :
              IF params.fitterType = "none" THEN geometry = base
              ELSE /\ Len(geometry.position)
                        = Len(base.position) + RingVertexCount + FitterSpokes * SpokeVertexCount
                   /\ \A k \in 1..Len(base.position) : geometry.position[k] = base.position[k]
                   /\ RingAfter(Len(base.position))
                   /\ SpokesAfter(Len(base.position), FitterSpokes)

C23_Witness ==
    /\ pc = "shape_done"
    /\ params.fitterType = "spider"
    /\ params.type = "lattice"
    /\ Len(geometry.position) > RingVertexCount + 3 * SpokeVertexCount
    /\ geometry.position[Len(geometry.position)].rot = Num(2, 3)

(* The vertices of a box of 1 x 32 x 1 segments *)
RibVertexCount == 4 * (BoxHeightSegments + 1) * 2 + 2 * 4

(* The silhouette radius less the wall thickness at the height of vertex v *)
InnerRadiusAt(v) == RSub(getRadiusAtHeight(v.y, params), params.thickness)

(* After the first vertices of the base mesh come internalRibs slabs, slab i
   turned by i / internalRibs of a turn, each vertex either on the outward
   side, at the inner radius + 0.01, or on the inward side, and then nothing
   but the fitter *)
RibSlabsAfter(first) ==
    /\ Len(geometry.position)
          = first + params.internalRibs * RibVertexCount
            + (IF params.fitterType = "none" THEN 0
               ELSE RingVertexCount + FitterSpokes * SpokeVertexCount)
    /\ \A i \in 0..(params.internalRibs - 1) :
          \A k \in (first + i * RibVertexCount + 1)..(first + (i + 1) * RibVertexCount) :
              /\ geometry.position[k].rot = Num(i, params.internalRibs)
              /\ \/ geometry.position[k].z
                       = RAdd(InnerRadiusAt(geometry.position[k]), Num(1, 100))
                 \/ RLt(geometry.position[k].z, InnerRadiusAt(geometry.position[k]))
    /\ \A i \in 0..(params.internalRibs - 1) :
          \E k \in (first + i * RibVertexCount + 1)..(first + (i + 1) * RibVertexCount) :
              geometry.position[k].z = RAdd(InnerRadiusAt(geometry.position[k]), Num(1, 100))

(* Vertex number s of a swept shell is on the inner wall *)
OnInnerWall(s) == (s - 1) % (2 * (ProfileSteps + 1)) >= ProfileSteps + 1

(* Every slab vertex on the outward side lies beyond the inner wall of the
   shell and not beyond its outer wall, wherever the shell has vertices at
   the same height and angle *)
RibsReachInnerWall(first) ==
    \A k \in (first + 1)..(first + params.internalRibs * RibVertexCount) :
        RLt(InnerRadiusAt(geometry.position[k]), geometry.position[k].z)
            => \A s \in 1..first :
                  (/\ geometry.position[s].y = geometry.position[k].y
                   /\ geometry.position[s].x = R(0)
                   /\ SamePoint([geometry.position[s] EXCEPT !.z = R(0)],
                                [geometry.position[k] EXCEPT !.z = R(0), !.x = R(0)]))
                      => IF OnInnerWall(s)
                         THEN RLt(geometry.position[s].z, geometry.position[k].z)
                         ELSE RLe(geometry.position[k].z, geometry.position[s].z)

(* A call with valid parameters for a shape that has a swept shell *)
RibbedShellCall ==
    /\ pc = "shape_done"
    /\ params.type \in SweptTypes
    /\ ValidShapeParams(params)

(* C24: when internalRibs = n > 0 exactly n rib slabs are merged into the mesh
   at angles i * 2 pi / n; at every height the outward-facing side of each slab
   lies at (silhouette radius - wall thickness) + 0.01, so that it overlaps
   the shell's inner wall by a positive amount; when internalRibs = 0 no rib is
   added. *)
C24_RibsOverlapInnerWall ==
    RibbedShellCall
        => /\ RibSlabsAfter(Len(RevolutionMesh(params).position))
           /\ RibsReachInnerWall(Len(RevolutionMesh(params).position))

(* C24 without the overlap: the slabs are where the claim puts them *)
C24_RibSlabsPlaced ==
    RibbedShellCall => RibSlabsAfter(Len(RevolutionMesh(params).position))

(* C24 for the shapes whose shell is not displaced *)
C24_OverlapOnPlainShells ==
    (RibbedShellCall /\ params.type \in UndisplacedTypes)
        => RibsReachInnerWall(Len(RevolutionMesh(params).position))

(* A state where an outward slab vertex meets an inner wall vertex of an
   undisplaced shell at the same height and angle *)
C24_OverlapCase ==
    /\ RibbedShellCall
    /\ params.type \in UndisplacedTypes
    /\ params.internalRibs > 0
    /\ \E first \in {Len(RevolutionMesh(params).position)} :
          \E k \in (first + 1)..(first + params.internalRibs * RibVertexCount) :
              \E s \in 1..first :
                  /\ OnInnerWall(s)
                  /\ geometry.position[s].y = geometry.position[k].y
                  /\ SamePoint([geometry.position[s] EXCEPT !.z = R(0)],
                               [geometry.position[k] EXCEPT !.z = R(0), !.x = R(0)])
                  /\ geometry.position[k].z = RAdd(geometry.position[s].z, Num(1, 100))

(* Vertex number k of a swept shell is on the outer wall *)
OnOuterWall(k) == (k - 1) % (2 * (ProfileSteps + 1)) <= ProfileSteps

DefinedVertex(v) == IsFinite(v.x) /\ IsFinite(v.y) /\ IsFinite(v.z) /\ IsFinite(v.rot)

(* C25: in every profile, for any radii, thickness and silhouette, each outer
   sample has radius >= 0.1 and each inner sample radius >= 0.05; hence no
   swept vertex has radius 0 and the displacement factor (r + displacement) / r
   never divides by zero: the shell has no NaN coordinate. *)
C25_ProfileClamped ==
    (/\ pc = "shape_done"
     /\ params.type \in SweptTypes
     /\ RLt(R(0), params.height))
        => \A ref \in {RevolutionMesh(params)} :
              \A k \in 1..Len(ref.position) :
                  /\ RLe(IF OnOuterWall(k) THEN Num(1, 10) ELSE Num(5, 100), ref.position[k].z)
                  /\ DefinedVertex(geometry.position[k])

C25_Witness ==
    /\ pc = "shape_done"
    /\ params.type = "wave_shell"
    /\ params.topRadius = R(0)
    /\ params.bottomRadius = R(0)
    /\ RevolutionMesh(params).position[1].z = Num(1, 10)
    /\ geometry.position[1].z # Num(1, 10)
    /\ DefinedVertex(geometry.position[1])

(* With height = 0 the radius of every sample is NaN: Math.max(0.1, NaN) *)
C25_ZeroHeightProfileUndefined ==
    (pc = "shape_done" /\ params.type \in SweptTypes /\ params.height = R(0))
        => \A ref \in {RevolutionMesh(params)} :
              \A k \in 1..Len(ref.position) : IsNaN(ref.position[k].z)

(* The vertices of a reinforcement ring: a torus of 8 radial and
   params.segments tubular segments *)
LatticeRingCount == (8 + 1) * (params.segments + 1)

(* Vertices first + 1 .. first + LatticeRingCount of the returned mesh are a
   ring of radius r at height y: a tube of radius thickness / 2 around that
   circle, which it reaches outwards *)
LatticeRingIs(first, y, r) ==
    /\ \A k \in (first + 1)..(first + LatticeRingCount) :
          /\ Within(geometry.position[k].z, r, RDiv(params.thickness, R(2)))
          /\ Within(geometry.position[k].y, y, RDiv(params.thickness, R(2)))
    /\ \E k \in (first + 1)..(first + LatticeRingCount) :
          geometry.position[k].z = RAdd(r, RDiv(params.thickness, R(2)))

LatticeCall ==
    /\ pc = "shape_done"
    /\ params.type = "lattice"
    /\ ShellOnly
    /\ ValidShapeParams(params)

(* C27: for lattice each reinforcement ring has the radius of the silhouette
   at the height where it is placed: the ring at y = +H/2 the radius
   getRadiusAtHeight(+H/2), the ring at y = -H/2 the radius
   getRadiusAtHeight(-H/2), for all topRadius and bottomRadius. *)
C27_RingsFollowSilhouette ==
    LatticeCall
        => /\ LatticeRingIs(Len(geometry.position) - 2 * LatticeRingCount,
                            RDiv(params.height, R(2)),
                            getRadiusAtHeight(RDiv(params.height, R(2)), params))
           /\ LatticeRingIs(Len(geometry.position) - LatticeRingCount,
                            RDiv(RNeg(params.height), R(2)),
                            getRadiusAtHeight(RDiv(RNeg(params.height), R(2)), params))

(* The ring at y = +H/2 has the radius topRadius and the ring at y = -H/2 the
   radius bottomRadius *)
C27_RingsOfNamedRadii ==
    LatticeCall
        => /\ LatticeRingIs(Len(geometry.position) - 2 * LatticeRingCount,
                            RDiv(params.height, R(2)), params.topRadius)
           /\ LatticeRingIs(Len(geometry.position) - LatticeRingCount,
                            RDiv(RNeg(params.height), R(2)), params.bottomRadius)

(* The silhouette has the radius bottomRadius at y = +H/2 *)
C27_SilhouetteAtUpperEnd ==
    LatticeCall => getRadiusAtHeight(RDiv(params.height, R(2)), params) = params.bottomRadius

(* The height of the fitter and the radius of its ring *)
FitterY == RSub(RDiv(params.height, R(2)), params.fitterHeight)

FitterRadius == RDiv(params.fitterDiameter, R(20))

(* The inner wall of the shell at the fitter height and the angle of spoke i:
   silhouette radius + displacement - thickness *)
InnerWallAtSpoke(i) ==
    RSub(RAdd(getRadiusAtHeight(FitterY, params),
              getDisplacementAt(Num(i, FitterSpokes), FitterY, params)),
         params.thickness)

(* The vertices of spoke i, the spokes being the last vertices of the mesh *)
SpokeRange(i) ==
    (Len(geometry.position) - (FitterSpokes - i) * SpokeVertexCount + 1)
        ..(Len(geometry.position) - (FitterSpokes - i - 1) * SpokeVertexCount)

(* Spoke i, which leaves the ring of radius fitterRadius outwards, ends at or
   inside the inner wall *)
SpokeInside(i) ==
    \A k \in SpokeRange(i) :
        /\ RLe(FitterRadius, geometry.position[k].x)
        /\ RLe(geometry.position[k].x, InnerWallAtSpoke(i))

FitterCall ==
    /\ pc = "shape_done"
    /\ params.fitterType \in {"spider", "uno"}
    /\ ValidShapeParams(params)

(* C28: every fitter spoke ends at or inside the shell's inner wall:
   fitterRadius + spokeLength <= (silhouette radius at the fitter height +
   displacement at the spoke angle) - thickness, for all fitterDiameter,
   fitterHeight and shell dimensions. *)
C28_SpokesInsideShell ==
    FitterCall => \A i \in 0..(FitterSpokes - 1) : SpokeInside(i)

(* C28 for the spokes whose ring lies at least 0.15 inside the inner wall *)
C28_SpokesInsideWhenRingFits ==
    FitterCall
        => \A i \in 0..(FitterSpokes - 1) :
              RLe(RAdd(FitterRadius, Num(15, 100)), InnerWallAtSpoke(i)) => SpokeInside(i)

(* A spoke of a ring that does not fit is 0.1 long *)
C28_ShortSpokeWhenRingDoesNotFit ==
    FitterCall
        => \A i \in 0..(FitterSpokes - 1) :
              RLt(InnerWallAtSpoke(i), RAdd(FitterRadius, Num(15, 100)))
                  => \E k \in SpokeRange(i) :
                        geometry.position[k].x = RAdd(FitterRadius, Num(1, 10))

----------------------------------------------------------------------------
(* Properties of the relief generator (specification SpecRelief) *)

(* C4: generateLithophaneGeometry fails with InvalidParameter, returning no
   mesh, when resolution < 2, width <= 0, height <= 0 or
   maxThickness < minThickness. *)
C4_InvalidReliefParamsRejected ==
    (/\ pc = "relief_done"
     /\ \/ lparams.resolution < 2
        \/ RLe(lparams.width, R(0))
        \/ RLe(lparams.height, R(0))
        \/ RLt(lparams.maxThickness, lparams.minThickness))
        => (outcome = "InvalidParameter" /\ relief = NoGeometry)

(* C5, relief part: a carrier type outside flat/curved/arc/cylinder makes the
   call fail with UnsupportedCarrierType. *)
C5_UnknownCarrierTypeRejected ==
    (pc = "relief_done" /\ lparams.type \notin {"flat", "curved", "arc", "cylinder"})
        => (outcome = "UnsupportedCarrierType" /\ relief = NoGeometry)

TriangleCount(g) == Len(g.index) \div 3

Corner(g, t, c) == g.index[3 * (t - 1) + c]

(* The number of triangles of g that have both a and b as corners *)
EdgeUse(g, a, b) ==
    Cardinality({t \in 1..TriangleCount(g) :
                    /\ \E c \in 1..3 : Corner(g, t, c) = a
                    /\ \E c \in 1..3 : Corner(g, t, c) = b})

Closed(g) ==
    \A t \in 1..TriangleCount(g) :
        \A c \in 1..3 :
            LET a == Corner(g, t, c)
                b == Corner(g, t, (c % 3) + 1)
            IN  a # b /\ EdgeUse(g, a, b) = 2

(* C6: for every grid with gridX >= 2 and gridY >= 2 the relief mesh is closed:
   every edge is used by exactly two triangles. *)
C6_ReliefClosed ==
    (/\ pc = "relief_done"
     /\ gridX(imageData, lparams) >= 2
     /\ gridY(imageData, lparams) >= 2)
        => Closed(relief)

C6_Witness ==
    /\ pc = "relief_done"
    /\ gridX(imageData, lparams) >= 3
    /\ gridY(imageData, lparams) >= 3
    /\ TriangleCount(relief) = 4 * (gridX(imageData, lparams) - 1) * (gridY(imageData, lparams) - 1)
                               + 4 * (gridX(imageData, lparams) - 1)
                               + 4 * (gridY(imageData, lparams) - 1)

(* The number of triangle sides of g that run from corner a to corner b *)
DirectedUse(g, a, b) ==
    Cardinality({tc \in (1..TriangleCount(g)) \X (1..3) :
                    /\ Corner(g, tc[1], tc[2]) = a
                    /\ Corner(g, tc[1], (tc[2] % 3) + 1) = b})

Oriented(g) ==
    \A t \in 1..TriangleCount(g) :
        \A c \in 1..3 :
            LET a == Corner(g, t, c)
                b == Corner(g, t, (c % 3) + 1)
            IN  a # b /\ DirectedUse(g, a, b) = 1 /\ DirectedUse(g, b, a) = 1

(* C16: the relief mesh is consistently oriented: every directed edge a -> b
   occurs in exactly one triangle and its reverse b -> a in exactly one other,
   for every image and every resolution >= 2. *)
C16_ReliefOriented ==
    (pc = "relief_done" /\ lparams.resolution >= 2) => Oriented(relief)

(* C16 on grids of at least two columns and two rows *)
C16_ReliefOrientedOnGrids ==
    (/\ pc = "relief_done"
     /\ gridX(imageData, lparams) >= 2
     /\ gridY(imageData, lparams) >= 2)
        => Oriented(relief)

(* The back vertex of the same grid point as front vertex v: same carrier
   coordinates, no relief depth *)
Mirrors(back, v) ==
    /\ back.polar = v.polar
    /\ back.unit = v.unit
    /\ back.x = v.x
    /\ back.y = v.y
    /\ back.z = (IF v.polar THEN lparams.curveRadius ELSE R(0))

GridCounts ==
    /\ Len(relief.position) = 2 * gridX(imageData, lparams) * gridY(imageData, lparams)
    /\ \A k \in 1..(gridX(imageData, lparams) * gridY(imageData, lparams)) :
          Mirrors(relief.position[k + gridX(imageData, lparams) * gridY(imageData, lparams)],
                  relief.position[k])
    /\ Len(relief.index) % 3 = 0
    /\ \A k \in 1..Len(relief.index) :
          /\ relief.index[k] >= 0
          /\ relief.index[k] < 2 * gridX(imageData, lparams) * gridY(imageData, lparams)

(* C17: the relief mesh has exactly 2 * gridX * gridY vertices, gridY =
   resolution and gridX = floor(resolution * width / height) of the image;
   back vertex k + gridX * gridY mirrors front vertex k at the same (u, v);
   every index is in [0, 2 * gridX * gridY) and the index count is a multiple
   of 3. *)
C17_GridCounts ==
    (pc = "relief_done" /\ lparams.resolution >= 2) => GridCounts

(* C17 on grids of at least two columns and two rows *)
C17_GridCountsOnGrids ==
    (/\ pc = "relief_done"
     /\ gridX(imageData, lparams) >= 2
     /\ gridY(imageData, lparams) >= 2)
        => GridCounts

(* The mean of channel ch over the edge-clamped (2r+1) x (2r+1) window around
   pixel (x, y) of the image src, as a byte *)
WindowMean(src, width, height, r, x, y, ch) ==
    ToUint8Clamped(WindowSum(src, width, height, r, x, y, ch, (2 * r + 1) * (2 * r + 1)),
                   (2 * r + 1) * (2 * r + 1))

(* The box blur of src: every R, G, B value the mean over its window in src,
   alpha as in src *)
BoxBlurOf(src, width, height, r) ==
    [i \in 1..Len(src) |->
        IF (i - 1) % 4 = 3 THEN src[i]
        ELSE WindowMean(src, width, height, r, ((i - 1) \div 4) % width,
                        ((i - 1) \div 4) \div width, (i - 1) % 4)]

(* C18: when smoothing > 0 the image is blurred in two passes of a box blur of
   radius r = floor(smoothing): in each pass every R, G, B value becomes the
   mean over the (2r+1) x (2r+1) edge-clamped window taken from that pass's
   input image; alpha is unchanged. *)
C18_BlurFromPassInput ==
    (pc = "relief_done" /\ RLt(R(0), lparams.smoothing))
        => processed
             = BoxBlurOf(BoxBlurOf(imageData.data, imageData.width, imageData.height,
                                   RFloor(lparams.smoothing)[1]),
                         imageData.width, imageData.height, RFloor(lparams.smoothing)[1])

(* C18, alpha: smoothing leaves every alpha value as it was *)
C18_AlphaUnchanged ==
    (pc = "relief_done" /\ RLt(R(0), lparams.smoothing))
        => /\ Len(processed) = Len(imageData.data)
           /\ \A i \in 1..Len(processed) : (i - 1) % 4 = 3 => processed[i] = imageData.data[i]

(* C19: generateLithophaneGeometry never modifies the caller's image buffer:
   smoothing writes only to its internal copy. *)
C19_CallerImageUntouched == [][imageData' = imageData]_vars

C19_Witness ==
    /\ pc = "relief_done"
    /\ RLe(R(1), lparams.smoothing)
    /\ processed # imageData.data
    /\ Len(relief.position) > 0

(* u = i / (gridX - 1) and v = j / (gridY - 1) of grid vertex (i, j) *)
GridU(i) == RDiv(R(i), R(gridX(imageData, lparams) - 1))

GridV(j) == RDiv(R(j), R(gridY(imageData, lparams) - 1))

InUnitInterval(a) == RLe(R(0), a) /\ RLe(a, R(1))

(* The texel (px, py) is a pixel of the image: its three bytes are in the
   buffer *)
TexelInside(px, py) ==
    /\ IsFinite(px) /\ px[2] = 1 /\ px[1] >= 0 /\ px[1] < imageData.width
    /\ IsFinite(py) /\ py[2] = 1 /\ py[1] >= 0 /\ py[1] < imageData.height
    /\ (py[1] * imageData.width + px[1]) * 4 + 2 < Len(processed)

(* The four texels getInterpolatedVal(u, v) reads are pixels of the image *)
SamplerInside(u, v) ==
    \A x1 \in {RFloor(RMul(u, R(imageData.width - 1)))} :
        \A y1 \in {RFloor(RMul(RSub(R(1), v), R(imageData.height - 1)))} :
            /\ TexelInside(x1, y1)
            /\ TexelInside(RMin(RAdd(x1, R(1)), R(imageData.width - 1)), y1)
            /\ TexelInside(x1, RMin(RAdd(y1, R(1)), R(imageData.height - 1)))
            /\ TexelInside(RMin(RAdd(x1, R(1)), R(imageData.width - 1)),
                           RMin(RAdd(y1, R(1)), R(imageData.height - 1)))

GridDefined ==
    /\ gridX(imageData, lparams) >= 2
    /\ gridY(imageData, lparams) >= 2
    /\ \A i \in 0..(gridX(imageData, lparams) - 1) :
          \A j \in 0..(gridY(imageData, lparams) - 1) :
              /\ InUnitInterval(GridU(i))
              /\ InUnitInterval(GridV(j))
              /\ SamplerInside(GridU(i), GridV(j))

(* C26: for every image of width and height >= 1 and every resolution >= 2
   the relief grid has gridX >= 2 and gridY >= 2, the (u, v) of every grid
   vertex is a defined number in [0, 1], and every texel the bilinear sampler
   reads is a pixel inside the image buffer. *)
C26_GridDefined ==
    (/\ pc = "relief_done"
     /\ imageData.width >= 1
     /\ imageData.height >= 1
     /\ lparams.resolution >= 2)
        => GridDefined

(* C26 for images at least as wide as tall *)
C26_GridDefinedForLandscape ==
    (/\ pc = "relief_done"
     /\ imageData.width >= imageData.height
     /\ imageData.height >= 1
     /\ lparams.resolution >= 2)
        => GridDefined

(* The relief depth stored in front vertex v *)
DepthOf(v) == IF v.polar THEN RSub(v.z, lparams.curveRadius) ELSE v.z

FrontCount == Max0(gridX(imageData, lparams)) * Max0(gridY(imageData, lparams))

DepthWithinRange ==
    \A k \in 1..FrontCount :
        /\ RLe(RAdd(lparams.baseThickness, lparams.minThickness), DepthOf(relief.position[k]))
        /\ RLe(DepthOf(relief.position[k]), RAdd(lparams.baseThickness, lparams.maxThickness))

(* C7: when maxThickness >= minThickness, the relief depth of every front
   vertex lies within [baseThickness + minThickness, baseThickness +
   maxThickness], for every image and every setting. *)
C7_DepthWithinRange ==
    (/\ pc = "relief_done"
     /\ lparams.resolution >= 2
     /\ RLe(lparams.minThickness, lparams.maxThickness))
        => DepthWithinRange

(* C7 on grids of at least two columns: the depth is within the range *)
C7_DepthWithinRangeOnGrids ==
    (/\ pc = "relief_done"
     /\ lparams.resolution >= 2
     /\ gridX(imageData, lparams) >= 2
     /\ RLe(lparams.minThickness, lparams.maxThickness))
        => DepthWithinRange

AllWhite(img) ==
    \A i \in 1..Len(img.data) : (i - 1) % 4 = 3 \/ img.data[i] = 255

WhiteFlatCall ==
    /\ pc = "relief_done"
    /\ lparams.type = "flat"
    /\ lparams.brightness = 0
    /\ lparams.contrast = 0
    /\ lparams.smoothing = R(0)
    /\ ~lparams.inverted
    /\ lparams.resolution >= 2
    /\ AllWhite(imageData)

(* C8: flat carrier, brightness = contrast = smoothing = 0, not inverted, an
   all-white image: every front vertex has z = baseThickness + minThickness,
   for any resolution >= 2. *)
C8_WhiteImageMinDepth ==
    WhiteFlatCall
        => \A k \in 1..FrontCount :
              relief.position[k].z = RAdd(lparams.baseThickness, lparams.minThickness)

(* C8 on grids of at least two columns *)
C8_WhiteImageMinDepthOnGrids ==
    (WhiteFlatCall /\ gridX(imageData, lparams) >= 2)
        => \A k \in 1..FrontCount :
              relief.position[k].z = RAdd(lparams.baseThickness, lparams.minThickness)

----------------------------------------------------------------------------
(* Properties of the page (specification SpecUI) *)

(* The mesh is mounted, Index holds it, and it carries the geometry of the
   current params, which has not been disposed *)
CarriesCurrentGeometry ==
    /\ meshRef = "mesh"
    /\ mesh # NoMesh
    /\ geometries[mesh.geometry].from = params
    /\ geometries[mesh.geometry].disposed = 0

(* Every geometry the mesh no longer carries has been disposed exactly once *)
SupersededDisposedOnce ==
    \A g \in DOMAIN geometries : g # mesh.geometry => geometries[g].disposed = 1

(* A step calls dispose() on a geometry only as it takes it off the mesh *)
DisposedAsReplaced ==
    \A g \in DOMAIN geometries :
        geometries'[g].disposed # geometries[g].disposed
            => (mesh.geometry = g /\ mesh'.geometry # g)

(* C29: after mount and after any sequence of parameter, material and
   wireframe changes, the mesh handleExport serializes carries the geometry
   generated from the current params; every superseded geometry has been
   disposed exactly once, in the step that replaced it, and the geometry on
   the mesh is never a disposed one *)
C29_ExportsCurrentGeometry ==
    /\ [](pc = "ui_mounted" =>
            /\ CarriesCurrentGeometry
            /\ SupersededDisposedOnce
            /\ (exported # NoExport
                  => geometries[exported.geometry].from = exported.params))
    /\ [][DisposedAsReplaced]_vars

(* An export after a parameter change and a material change *)
C29_Witness ==
    /\ exported # NoExport
    /\ exported.geometry = mesh.geometry
    /\ exported.params.segments # DEFAULT_PARAMS.segments
    /\ material # DEFAULT_MATERIAL
    /\ Len(geometries) > 3

(* C30: through every sequence of handleReset, handleRandomize and
   updateParam actions params.segments stays within [12, 128], and so does the
   segment count of every call of generateLampshadeGeometry the page makes *)
C30_SegmentsWithinSliderRange ==
    /\ params.segments \in 12..128
    /\ \A g \in DOMAIN geometries : geometries[g].from.segments \in 12..128

(* The slider at its upper end, then a randomized design *)
C30_Witness ==
    /\ pc = "ui_mounted"
    /\ params.segments = 128
    /\ params.type = "geometric_poly"
    /\ geometries[mesh.geometry].from = params

====
